---- MODULE Spec2Model ----
(***************************************************************************)
(* Connector reconciliation engine (ConnectorManager): the periodic        *)
(* Reconcile tick with its startup catalog reconciliation, the startup     *)
(* probe goroutine that releases the API-server wait group, the five phase *)
(* reconcilers run through doReconcile/InDBTransaction, and the replica    *)
(* local lastVersion high-water mark.                                      *)
(***************************************************************************)
EXTENDS Integers, Sequences, FiniteSets, TLC

\* ------------------------------------------------------------------ bounds
MaxTicks == 2
MaxExternal == 1
MaxFailures == 1
NumEntries == 1

\* --------------------------------------------------------------- constants
Nil == "nil"
NamespaceIds == {"ns-1", "ns-2"}
ClusterOf(ns) == IF ns = "ns-1" THEN "cl-1" ELSE "cl-2"

ConnectorReady == "ready"
ConnectorUnassigned == "unassigned"
ConnectorDeleted == "deleted"

ConnectorStatusPhaseAssigning == "assigning"
ConnectorStatusPhaseAssigned == "assigned"
ConnectorStatusPhaseDeleting == "deleting"
ConnectorStatusPhaseDeleted == "deleted"

\* (variant) the update pass moved in front of the other four
ReconcilePhases_UpdateFirst == <<"updated", "assigning", "unassigned", "deleting", "deleted">>

\* reconcilePhase names, in the order Reconcile calls doReconcile
ReconcilePhases == <<"assigning", "unassigned", "deleting", "deleted", "updated">>

Entries == 1..NumEntries
\* a catalog row left in the database by an earlier configuration
OrphanEntry == NumEntries + 1

VARIABLES
    \* ---- shared database
    connectors,       \* [id -> connector row joined with its status], existing rows only
    deployments,      \* set of connector deployment rows
    catalogStore,     \* [entry -> shard metadata row], existing rows only
    created,          \* number of connector ids handed out so far
    nextVersion,      \* the connectors' version sequence
    nextDeploymentId, \* stands for api.NewID(): never repeats
    \* ---- process configuration, loaded once at startup
    config,           \* [entry -> shard metadata of the configured channel]
    replicas,         \* the fleet-manager processes
    leaders,          \* the processes whose reconciler driver invokes Reconcile
    \* ---- ConnectorManager fields, one per replica
    lastVersion,
    startupReconcileDone,
    startupReconcileWG,
    ctx,              \* TRUE when k.ctx is non-nil
    \* ---- position of the Reconcile call and of the probe goroutine
    pc,
    phaseIdx,
    crTodo,           \* catalog entries ForEachConnectorCatalogEntry has still to visit
    rows,             \* [id -> row as read by the scan] still to be handed to the callback
    errs,             \* the []error under construction / returned by the last tick
    probePc,
    \* ---- environment budgets
    ticks,
    external,
    failures,
    \* ---- history
    doneWriters,      \* who assigned startupReconcileDone = true
    wgDoneCalls,      \* number of startupReconcileWG.Done() calls
    tickStartVersion, \* lastVersion when the current tick started
    ran,              \* phase reconcilers whose scan ran in the current/last tick
    crErr,            \* the error the startup catalog reconciliation returned in this tick
    crCompleted,      \* replicas whose Reconcile finished the whole catalog reconciliation
    selected,         \* [phase -> ids] selected by the successful "deleting" and "updated"
                      \* scans of the current tick
    lastTx,           \* the last InDBTransaction of the phase being reconciled: its row, its
                      \* outcome and the namespace PR-assigning was given
    failedUpdate,     \* [id -> "this_tick" | "earlier"] rows whose last PR-update did not commit,
                      \* untouched since by any external actor
    calm              \* "clean1": the previous tick returned no error and nothing outside the
                      \* reconciler has changed since it started; "clean0": the same for the
                      \* running tick only; "dirty" otherwise

dbVars == <<connectors, deployments, catalogStore, created, nextVersion, nextDeploymentId>>
cfgVars == <<config, replicas, leaders>>
kVars == <<lastVersion, startupReconcileDone, startupReconcileWG, ctx>>
tickVars == <<pc, phaseIdx, crTodo, rows, errs>>
budgetVars == <<ticks, external, failures>>
histVars == <<doneWriters, wgDoneCalls, tickStartVersion, ran, crErr, crCompleted,
              selected, lastTx, failedUpdate, calm>>
vars == <<dbVars, cfgVars, kVars, tickVars, probePc, budgetVars, histVars>>

\* ------------------------------------------------------------------ errors
NoErr == [svc |-> FALSE, msg |-> "nil"]
\* a *serviceError.ServiceError
ServiceErr(m) == [svc |-> TRUE, msg |-> m]
\* a plain error (errors.Errorf / errors.Wrapf / a driver error)
PlainErr(m) == [svc |-> FALSE, msg |-> m]

\* ------------------------------------------------------------ shard metadata
\* A JSON value under "connector_revision": found, whether it decodes to a
\* float64, and (for numbers) twice its value, so that x.5 is representable.
MdNumber(twice) == [found |-> TRUE, isfloat64 |-> TRUE, twice |-> twice]
MdString == [found |-> TRUE, isfloat64 |-> FALSE, twice |-> 0]
MdMissing == [found |-> FALSE, isfloat64 |-> FALSE, twice |-> 0]

\* Go's int64(float64): truncation toward zero
Int64OfFloat(twice) == IF twice >= 0 THEN twice \div 2 ELSE -((-twice) \div 2)

\* (variant) a missing connector_revision taken as revision 0
GetShardMetadataRevision_MissingIsZero(md) ==
    IF md.found /\ ~md.isfloat64
    THEN [revision |-> 0, err |-> PlainErr("connector_revision in shard metadata was not an int")]
    ELSE [revision |-> IF md.found THEN Int64OfFloat(md.twice) ELSE 0, err |-> NoErr]

GetShardMetadataRevision(md) ==
    IF md.found
    THEN IF md.isfloat64
         THEN [revision |-> Int64OfFloat(md.twice), err |-> NoErr]
         ELSE [revision |-> 0, err |-> PlainErr("connector_revision in shard metadata was not an int")]
    ELSE [revision |-> 0, err |-> PlainErr("connector_revision not found in shard metadata")]

\* ------------------------------------------------------- store collaborators
DB == [connectors |-> connectors, deployments |-> deployments, catalog |-> catalogStore]

EntryOf(id) == ((id - 1) % NumEntries) + 1

ShardMetadataId(e, revision) == <<e, revision>>

\* ConnectorTypesService.CatalogEntriesReconciled: the stored catalog matches
\* the configured one, entry by entry
CatalogEntriesReconciled(store, cfg) ==
    \A e \in DOMAIN cfg : e \in DOMAIN store /\ store[e].blob = cfg[e]

\* ConnectorTypesService.DeleteUnusedAndNotInCatalog
DeleteUnusedAndNotInCatalog(store, cfg, conns) ==
    LET keep == {e \in DOMAIN store :
                    e \in DOMAIN cfg \/ \E c \in DOMAIN conns : conns[c].entry = e}
    IN  [e \in keep |-> store[e]]

\* ConnectorTypesService.PutConnectorShardMetadata
PutConnectorShardMetadata(store, row) ==
    [e \in DOMAIN store \cup {row.entry} |->
        IF e = row.entry
        THEN [id |-> ShardMetadataId(e, row.revision), revision |-> row.revision, blob |-> row.blob]
        ELSE store[e]]

\* ConnectorClusterService.CleanupDeployments
CleanupDeployments(deps, conns) == {d \in deps : d.connector_id \in DOMAIN conns}

\* ConnectorClusterService.FindAvailableNamespace: the namespaces it may return
\* for a preferred namespace id; Nil when none is ready
FindAvailableNamespace(preferred) ==
    {Nil} \cup (IF preferred = Nil THEN NamespaceIds ELSE {preferred})

\* ConnectorClusterService.GetDeploymentByConnectorId: {} stands for the 404
GetDeploymentByConnectorId(deps, id) ==
    LET found == {d \in deps : d.connector_id = id}
    IN  IF found = {} THEN {{}} ELSE {{d} : d \in found}

\* ConnectorsService.SaveStatus, staged in the transaction
SaveStatus(conns, status) ==
    [conns EXCEPT ![status.id].phase = status.phase,
                  ![status.id].status_namespace_id = status.namespace_id]

\* k.db.New().Model(&connector).Where("id = ?", id).Update("namespace_id", nil)
UpdateNamespaceIdNil(conns, id) ==
    IF id \in DOMAIN conns THEN [conns EXCEPT ![id].namespace_id = Nil] ELSE conns

\* the status part of a row read by the scan
StatusOf(conn) ==
    [id |-> conn.id, phase |-> conn.phase, namespace_id |-> conn.status_namespace_id]

\* --------------------------------------------------- selection predicates
\* (variant) the phase test left out of the "assigning" query
AssigningQuery_AnyPhase(c) ==
    /\ c.desired_state = ConnectorReady
    /\ c.namespace_id # Nil

AssigningQuery(c) ==
    /\ c.desired_state = ConnectorReady
    /\ c.phase = ConnectorStatusPhaseAssigning
    /\ c.namespace_id # Nil

\* (variant) the desired_state test left out of the "unassigned" query
UnassignedQuery_AnyDesired(c) ==
    c.phase = ConnectorStatusPhaseDeleted

UnassignedQuery(c) ==
    c.desired_state = ConnectorUnassigned /\ c.phase = ConnectorStatusPhaseDeleted

DeletingQuery(c) ==
    c.desired_state = ConnectorDeleted /\ c.phase = ConnectorStatusPhaseDeleting

\* (variant) phase deleted left out of the phases the "deleted" query accepts
DeletedQuery_AssigningOnly(c) ==
    /\ c.desired_state = ConnectorDeleted
    /\ c.phase \in {ConnectorStatusPhaseAssigning}

DeletedQuery(c) ==
    /\ c.desired_state = ConnectorDeleted
    /\ c.phase \in {ConnectorStatusPhaseAssigning, ConnectorStatusPhaseDeleted}

\* (variant) the "version > ?" test left out of the "updated" query
UpdatedQuery_AnyVersion(c, lv) ==
    c.phase \notin {ConnectorStatusPhaseAssigning, ConnectorStatusPhaseDeleting,
                    ConnectorStatusPhaseDeleted}

\* (variant) phase deleted left out of the phases the "updated" query excludes
UpdatedQuery_DeletedToo(c, lv) ==
    /\ c.version > lv
    /\ c.phase \notin {ConnectorStatusPhaseAssigning, ConnectorStatusPhaseDeleting}

UpdatedQuery(c, lv) ==
    /\ c.version > lv
    /\ c.phase \notin {ConnectorStatusPhaseAssigning, ConnectorStatusPhaseDeleting,
                       ConnectorStatusPhaseDeleted}

Query(phase, c, lv) ==
    CASE phase = "assigning" -> AssigningQuery(c)
      [] phase = "unassigned" -> UnassignedQuery(c)
      [] phase = "deleting" -> DeletingQuery(c)
      [] phase = "deleted" -> DeletedQuery(c)
      [] phase = "updated" -> UpdatedQuery(c, lv)

\* ------------------------------------------------------ per-row functions
\* What a per-row function did: the error it returned, the database as the
\* transaction has staged it (tx), the rows written outside the transaction
\* (out) and the post-commit actions it registered, in registration order.
Effects(err, txConnectors, txDeployments, outConnectors, post) ==
    [err |-> err,
     tx |-> [connectors |-> txConnectors, deployments |-> txDeployments],
     out |-> [connectors |-> outConnectors],
     post |-> post]

\* (variant) the connector's version is not copied into the new deployment
NewDeployment_NoVersion(newId, conn, namespace, shardMetadata) ==
    [id |-> newId,
     connector_id |-> conn.id,
     cluster_id |-> ClusterOf(namespace),
     namespace_id |-> namespace,
     connector_version |-> 0,
     connector_shard_metadata_id |-> shardMetadata.id]

\* (variant) the cluster is not taken from the chosen namespace
NewDeployment_FirstCluster(newId, conn, namespace, shardMetadata) ==
    [id |-> newId,
     connector_id |-> conn.id,
     cluster_id |-> ClusterOf("ns-1"),
     namespace_id |-> namespace,
     connector_version |-> conn.version,
     connector_shard_metadata_id |-> shardMetadata.id]

\* (variant) the new deployment is given the version after the connector's
NewDeployment_VersionAhead(newId, conn, namespace, shardMetadata) ==
    [id |-> newId,
     connector_id |-> conn.id,
     cluster_id |-> ClusterOf(namespace),
     namespace_id |-> namespace,
     connector_version |-> conn.version + 1,
     connector_shard_metadata_id |-> shardMetadata.id]

NewDeployment(newId, conn, namespace, shardMetadata) ==
    [id |-> newId,
     connector_id |-> conn.id,
     cluster_id |-> ClusterOf(namespace),
     namespace_id |-> namespace,
     connector_version |-> conn.version,
     connector_shard_metadata_id |-> shardMetadata.id]

\* (variant) the status is saved outside the transaction
reconcileAssigning_StatusOutsideTx(db, conn, F, namespace, newId) ==
    LET status == [id |-> conn.id, phase |-> ConnectorStatusPhaseAssigned,
                   namespace_id |-> namespace]
        saved == SaveStatus(db.connectors, status)
    IN  IF "FindAvailableNamespace" \in F
        THEN Effects(PlainErr("failed to find namespace"),
                     db.connectors, db.deployments, db.connectors, <<>>)
        ELSE IF namespace = Nil
        THEN Effects(NoErr, db.connectors, db.deployments, db.connectors, <<>>)
        ELSE IF "GetLatestConnectorShardMetadata" \in F \/ conn.entry \notin DOMAIN db.catalog
        THEN Effects(PlainErr("failed to get latest channel version"),
                     db.connectors, db.deployments, db.connectors, <<>>)
        ELSE IF "SaveStatus" \in F \/ conn.id \notin DOMAIN db.connectors
        THEN Effects(PlainErr("failed to update connector status"),
                     db.connectors, db.deployments, db.connectors, <<>>)
        ELSE IF "SaveDeployment" \in F
        THEN Effects(PlainErr("failed to create connector deployment"),
                     saved, db.deployments, saved, <<>>)
        ELSE Effects(NoErr, saved,
                     db.deployments \cup
                         {NewDeployment(newId, conn, namespace, db.catalog[conn.entry])},
                     saved, <<>>)

\* (variant) no available namespace reported as an error
reconcileAssigning_NilIsError(db, conn, F, namespace, newId) ==
    LET status == [id |-> conn.id, phase |-> ConnectorStatusPhaseAssigned,
                   namespace_id |-> namespace]
        saved == SaveStatus(db.connectors, status)
    IN  IF "FindAvailableNamespace" \in F \/ namespace = Nil
        THEN Effects(PlainErr("failed to find namespace"),
                     db.connectors, db.deployments, db.connectors, <<>>)
        ELSE IF "GetLatestConnectorShardMetadata" \in F \/ conn.entry \notin DOMAIN db.catalog
        THEN Effects(PlainErr("failed to get latest channel version"),
                     db.connectors, db.deployments, db.connectors, <<>>)
        ELSE IF "SaveStatus" \in F \/ conn.id \notin DOMAIN db.connectors
        THEN Effects(PlainErr("failed to update connector status"),
                     db.connectors, db.deployments, db.connectors, <<>>)
        ELSE IF "SaveDeployment" \in F
        THEN Effects(PlainErr("failed to create connector deployment"),
                     saved, db.deployments, db.connectors, <<>>)
        ELSE Effects(NoErr, saved,
                     db.deployments \cup
                         {NewDeployment(newId, conn, namespace, db.catalog[conn.entry])},
                     db.connectors, <<>>)

\* F is the set of collaborator calls that fail in this invocation;
\* namespace is what FindAvailableNamespace returns when it does not fail.
reconcileAssigning(db, conn, F, namespace, newId) ==
    LET status == [id |-> conn.id, phase |-> ConnectorStatusPhaseAssigned,
                   namespace_id |-> namespace]
        saved == SaveStatus(db.connectors, status)
    IN  IF "FindAvailableNamespace" \in F
        THEN Effects(PlainErr("failed to find namespace"),
                     db.connectors, db.deployments, db.connectors, <<>>)
        ELSE IF namespace = Nil
        THEN Effects(NoErr, db.connectors, db.deployments, db.connectors, <<>>)
        ELSE IF "GetLatestConnectorShardMetadata" \in F \/ conn.entry \notin DOMAIN db.catalog
        THEN Effects(PlainErr("failed to get latest channel version"),
                     db.connectors, db.deployments, db.connectors, <<>>)
        ELSE IF "SaveStatus" \in F \/ conn.id \notin DOMAIN db.connectors
        THEN Effects(PlainErr("failed to update connector status"),
                     db.connectors, db.deployments, db.connectors, <<>>)
        ELSE IF "SaveDeployment" \in F
        THEN Effects(PlainErr("failed to create connector deployment"),
                     saved, db.deployments, db.connectors, <<>>)
        ELSE Effects(NoErr, saved,
                     db.deployments \cup
                         {NewDeployment(newId, conn, namespace, db.catalog[conn.entry])},
                     db.connectors, <<>>)

\* (variant) only the status is saved: the row's namespace_id is left as it is
reconcileUnassigned_KeepsNamespace(db, conn, F) ==
    LET status == [id |-> conn.id, phase |-> ConnectorStatusPhaseAssigning,
                   namespace_id |-> Nil]
    IN  IF "UpdateNamespaceId" \in F
        THEN Effects(PlainErr("failed to update namespace_id"),
                     db.connectors, db.deployments, db.connectors, <<>>)
        ELSE IF "SaveStatus" \in F \/ conn.id \notin DOMAIN db.connectors
        THEN Effects(PlainErr("failed to update phase to assigning"),
                     db.connectors, db.deployments, db.connectors, <<>>)
        ELSE Effects(NoErr, SaveStatus(db.connectors, status), db.deployments,
                     db.connectors, <<>>)

reconcileUnassigned(db, conn, F) ==
    LET status == [id |-> conn.id, phase |-> ConnectorStatusPhaseAssigning,
                   namespace_id |-> Nil]
        cleared == UpdateNamespaceIdNil(db.connectors, conn.id)
    IN  IF "UpdateNamespaceId" \in F
        THEN Effects(PlainErr("failed to update namespace_id"),
                     db.connectors, db.deployments, db.connectors, <<>>)
        ELSE IF "SaveStatus" \in F \/ conn.id \notin DOMAIN db.connectors
        THEN Effects(PlainErr("failed to update phase to assigning"),
                     cleared, db.deployments, cleared, <<>>)
        ELSE Effects(NoErr, SaveStatus(cleared, status), db.deployments, cleared, <<>>)

\* (variant) the connector is moved to phase deleted whether or not its
\* deployment is still there
reconcileDeleting_IgnoresDeployment(db, conn, F, found) ==
    LET status == [StatusOf(conn) EXCEPT !.phase = ConnectorStatusPhaseDeleted]
        cleared == UpdateNamespaceIdNil(db.connectors, conn.id)
    IN  IF "GetDeploymentByConnectorId" \in F
        THEN Effects(ServiceErr("failed to get deployment"),
                     db.connectors, db.deployments, db.connectors, <<>>)
        ELSE IF "UpdateNamespaceId" \in F
        THEN Effects(PlainErr("failed to update namespace_id"),
                     db.connectors, db.deployments, db.connectors, <<>>)
        ELSE IF "SaveStatus" \in F \/ conn.id \notin DOMAIN db.connectors
        THEN Effects(ServiceErr("failed to update status"),
                     cleared, db.deployments, cleared, <<>>)
        ELSE Effects(NoErr, SaveStatus(cleared, status), db.deployments, cleared, <<>>)

\* (variant) the connector whose deployment is gone is put back in phase
\* assigning
reconcileDeleting_ToAssigning(db, conn, F, found) ==
    LET status == [StatusOf(conn) EXCEPT !.phase = ConnectorStatusPhaseAssigning]
        cleared == UpdateNamespaceIdNil(db.connectors, conn.id)
    IN  IF "GetDeploymentByConnectorId" \in F
        THEN Effects(ServiceErr("failed to get deployment"),
                     db.connectors, db.deployments, db.connectors, <<>>)
        ELSE IF found # {}
        THEN Effects(NoErr, db.connectors, db.deployments, db.connectors, <<>>)
        ELSE IF "UpdateNamespaceId" \in F
        THEN Effects(PlainErr("failed to update namespace_id"),
                     db.connectors, db.deployments, db.connectors, <<>>)
        ELSE IF "SaveStatus" \in F \/ conn.id \notin DOMAIN db.connectors
        THEN Effects(ServiceErr("failed to update status"),
                     cleared, db.deployments, cleared, <<>>)
        ELSE Effects(NoErr, SaveStatus(cleared, status), db.deployments, cleared, <<>>)

\* found is the result of GetDeploymentByConnectorId when it does not fail
reconcileDeleting(db, conn, F, found) ==
    LET status == [StatusOf(conn) EXCEPT !.phase = ConnectorStatusPhaseDeleted]
        cleared == UpdateNamespaceIdNil(db.connectors, conn.id)
    IN  IF "GetDeploymentByConnectorId" \in F
        THEN Effects(ServiceErr("failed to get deployment"),
                     db.connectors, db.deployments, db.connectors, <<>>)
        ELSE IF found # {}
        THEN Effects(NoErr, db.connectors, db.deployments, db.connectors, <<>>)
        ELSE IF "UpdateNamespaceId" \in F
        THEN Effects(PlainErr("failed to update namespace_id"),
                     db.connectors, db.deployments, db.connectors, <<>>)
        ELSE IF "SaveStatus" \in F \/ conn.id \notin DOMAIN db.connectors
        THEN Effects(ServiceErr("failed to update status"),
                     cleared, db.deployments, cleared, <<>>)
        ELSE Effects(NoErr, SaveStatus(cleared, status), db.deployments, cleared, <<>>)

reconcileDeleted(db, conn, F) ==
    IF "Delete" \in F \/ conn.id \notin DOMAIN db.connectors
    THEN Effects(ServiceErr("failed to delete connector"),
                 db.connectors, db.deployments, db.connectors, <<>>)
    ELSE Effects(NoErr,
                 [c \in DOMAIN db.connectors \ {conn.id} |-> db.connectors[c]],
                 db.deployments, db.connectors, <<>>)

\* (variant) the deployment is saved whether or not its version differs
reconcileConnectorUpdate_AlwaysSaves(db, conn, F, found) ==
    LET deployment == CHOOSE d \in found : TRUE
        updated == [deployment EXCEPT !.connector_version = conn.version]
        step ==
            IF "GetDeploymentByConnectorId" \in F
            THEN [err |-> ServiceErr("failed to get deployment"), deps |-> db.deployments]
            ELSE IF found = {}
            THEN [err |-> ServiceErr("deployment not found"), deps |-> db.deployments]
            ELSE IF "SaveDeployment" \in F
            THEN [err |-> PlainErr("failed to update connector version in deployment"),
                  deps |-> db.deployments]
            ELSE [err |-> NoErr, deps |-> (db.deployments \ {deployment}) \cup {updated}]
    IN  IF "AddPostCommitAction" \in F
        THEN Effects(IF step.err = NoErr
                     THEN PlainErr("failed to AddPostCommitAction")
                     ELSE PlainErr("Multiple errors in reconciling connector"),
                     db.connectors, step.deps, db.connectors, <<>>)
        ELSE Effects(step.err, db.connectors, step.deps, db.connectors, <<conn.version>>)

\* (variant) a failed AddPostCommitAction is only logged
reconcileConnectorUpdate_RegistrationLogged(db, conn, F, found) ==
    LET deployment == CHOOSE d \in found : TRUE
        updated == [deployment EXCEPT !.connector_version = conn.version]
        step ==
            IF "GetDeploymentByConnectorId" \in F
            THEN [err |-> ServiceErr("failed to get deployment"), deps |-> db.deployments]
            ELSE IF found = {}
            THEN [err |-> ServiceErr("deployment not found"), deps |-> db.deployments]
            ELSE IF deployment.connector_version = conn.version
            THEN [err |-> NoErr, deps |-> db.deployments]
            ELSE IF "SaveDeployment" \in F
            THEN [err |-> PlainErr("failed to update connector version in deployment"),
                  deps |-> db.deployments]
            ELSE [err |-> NoErr, deps |-> (db.deployments \ {deployment}) \cup {updated}]
    IN  IF "AddPostCommitAction" \in F
        THEN Effects(step.err, db.connectors, step.deps, db.connectors, <<>>)
        ELSE Effects(step.err, db.connectors, step.deps, db.connectors, <<conn.version>>)

\* (variant) the deployment's version is moved one step towards the connector's
reconcileConnectorUpdate_OneStep(db, conn, F, found) ==
    LET deployment == CHOOSE d \in found : TRUE
        updated == [deployment EXCEPT !.connector_version = @ + 1]
        step ==
            IF "GetDeploymentByConnectorId" \in F
            THEN [err |-> ServiceErr("failed to get deployment"), deps |-> db.deployments]
            ELSE IF found = {}
            THEN [err |-> ServiceErr("deployment not found"), deps |-> db.deployments]
            ELSE IF deployment.connector_version = conn.version
            THEN [err |-> NoErr, deps |-> db.deployments]
            ELSE IF "SaveDeployment" \in F
            THEN [err |-> PlainErr("failed to update connector version in deployment"),
                  deps |-> db.deployments]
            ELSE [err |-> NoErr, deps |-> (db.deployments \ {deployment}) \cup {updated}]
    IN  IF "AddPostCommitAction" \in F
        THEN Effects(IF step.err = NoErr
                     THEN PlainErr("failed to AddPostCommitAction")
                     ELSE PlainErr("Multiple errors in reconciling connector"),
                     db.connectors, step.deps, db.connectors, <<>>)
        ELSE Effects(step.err, db.connectors, step.deps, db.connectors, <<conn.version>>)

reconcileConnectorUpdate(db, conn, F, found) ==
    LET deployment == CHOOSE d \in found : TRUE
        updated == [deployment EXCEPT !.connector_version = conn.version]
        \* the lookup and the conditional save
        step ==
            IF "GetDeploymentByConnectorId" \in F
            THEN [err |-> ServiceErr("failed to get deployment"), deps |-> db.deployments]
            ELSE IF found = {}
            THEN [err |-> ServiceErr("deployment not found"), deps |-> db.deployments]
            ELSE IF deployment.connector_version = conn.version
            THEN [err |-> NoErr, deps |-> db.deployments]
            ELSE IF "SaveDeployment" \in F
            THEN [err |-> PlainErr("failed to update connector version in deployment"),
                  deps |-> db.deployments]
            ELSE [err |-> NoErr, deps |-> (db.deployments \ {deployment}) \cup {updated}]
    IN  IF "AddPostCommitAction" \in F
        THEN Effects(IF step.err = NoErr
                     THEN PlainErr("failed to AddPostCommitAction")
                     ELSE PlainErr("Multiple errors in reconciling connector"),
                     db.connectors, step.deps, db.connectors, <<>>)
        ELSE Effects(step.err, db.connectors, step.deps, db.connectors, <<conn.version>>)

reconcileFunc(phase, db, conn, F, namespace, found, newId) ==
    CASE phase = "assigning" -> reconcileAssigning(db, conn, F, namespace, newId)
      [] phase = "unassigned" -> reconcileUnassigned(db, conn, F)
      [] phase = "deleting" -> reconcileDeleting(db, conn, F, found)
      [] phase = "deleted" -> reconcileDeleted(db, conn, F)
      [] phase = "updated" -> reconcileConnectorUpdate(db, conn, F, found)

\* the collaborator calls a row of the given phase can make
CallsOf(phase) ==
    {"Begin", "Resolve"} \cup
    CASE phase = "assigning" -> {"FindAvailableNamespace", "GetLatestConnectorShardMetadata",
                                 "SaveStatus", "SaveDeployment"}
      [] phase = "unassigned" -> {"UpdateNamespaceId", "SaveStatus"}
      [] phase = "deleting" -> {"GetDeploymentByConnectorId", "UpdateNamespaceId", "SaveStatus"}
      [] phase = "deleted" -> {"Delete"}
      [] phase = "updated" -> {"GetDeploymentByConnectorId", "SaveDeployment",
                               "AddPostCommitAction"}

\* ------------------------------------------------------- transaction scope
\* the closure registered by reconcileConnectorUpdate: k.lastVersion = connector.Version
PostCommitAction(lv, version) == version

RECURSIVE RunPostCommitActions(_, _)
RunPostCommitActions(post, lv) ==
    IF post = <<>> THEN lv
    ELSE RunPostCommitActions(Tail(post), PostCommitAction(lv, Head(post)))

\* (variant) a failed Resolve is reported only when f returned no error
InDBTransaction_KeepsInnerError(db, F, res, lv) ==
    IF "Begin" \in F
    THEN [connectors |-> db.connectors, deployments |-> db.deployments,
          lastVersion |-> lv, invoked |-> FALSE, outcome |-> "begin_failed",
          rerr |-> ServiceErr("failed to create tx")]
    ELSE IF res.err # NoErr
    THEN [connectors |-> res.out.connectors, deployments |-> db.deployments,
          lastVersion |-> lv, invoked |-> TRUE,
          outcome |-> IF "Resolve" \in F THEN "rollback_failed" ELSE "rolled_back",
          rerr |-> IF res.err.svc THEN res.err ELSE ServiceErr(res.err.msg)]
    ELSE IF "Resolve" \in F
    THEN [connectors |-> res.out.connectors, deployments |-> db.deployments,
          lastVersion |-> lv, invoked |-> TRUE, outcome |-> "commit_failed",
          rerr |-> ServiceErr("failed to resolve tx")]
    ELSE [connectors |-> res.tx.connectors, deployments |-> res.tx.deployments,
          lastVersion |-> RunPostCommitActions(res.post, lv), invoked |-> TRUE,
          outcome |-> "committed", rerr |-> NoErr]

\* (variant) a failed Begin is only reported: f is invoked all the same, with
\* nothing to stage its writes in
InDBTransaction_RunsWithoutTx(db, F, res, lv) ==
    IF "Begin" \in F
    THEN [connectors |-> res.out.connectors, deployments |-> db.deployments,
          lastVersion |-> lv, invoked |-> TRUE, outcome |-> "begin_failed",
          rerr |-> ServiceErr("failed to create tx")]
    ELSE IF res.err # NoErr
    THEN [connectors |-> res.out.connectors, deployments |-> db.deployments,
          lastVersion |-> lv, invoked |-> TRUE,
          outcome |-> IF "Resolve" \in F THEN "rollback_failed" ELSE "rolled_back",
          rerr |-> IF "Resolve" \in F THEN ServiceErr("failed to resolve tx")
                   ELSE IF res.err.svc THEN res.err ELSE ServiceErr(res.err.msg)]
    ELSE IF "Resolve" \in F
    THEN [connectors |-> res.out.connectors, deployments |-> db.deployments,
          lastVersion |-> lv, invoked |-> TRUE, outcome |-> "commit_failed",
          rerr |-> ServiceErr("failed to resolve tx")]
    ELSE [connectors |-> res.tx.connectors, deployments |-> res.tx.deployments,
          lastVersion |-> RunPostCommitActions(res.post, lv), invoked |-> TRUE,
          outcome |-> "committed", rerr |-> NoErr]

\* (variant) the rollback mark is lost: Resolve commits what f staged before
\* it returned its error
InDBTransaction_CommitsOnError(db, F, res, lv) ==
    IF "Begin" \in F
    THEN [connectors |-> db.connectors, deployments |-> db.deployments,
          lastVersion |-> lv, invoked |-> FALSE, outcome |-> "begin_failed",
          rerr |-> ServiceErr("failed to create tx")]
    ELSE IF "Resolve" \in F
    THEN [connectors |-> res.out.connectors, deployments |-> db.deployments,
          lastVersion |-> lv, invoked |-> TRUE, outcome |-> "commit_failed",
          rerr |-> ServiceErr("failed to resolve tx")]
    ELSE [connectors |-> res.tx.connectors, deployments |-> res.tx.deployments,
          lastVersion |-> IF res.err = NoErr THEN RunPostCommitActions(res.post, lv) ELSE lv,
          invoked |-> TRUE, outcome |-> "committed",
          rerr |-> IF res.err = NoErr \/ res.err.svc THEN res.err
                   ELSE ServiceErr(res.err.msg)]

\* (variant) the post-commit actions are run by Resolve on rollback too
InDBTransaction_PostOnRollback(db, F, res, lv) ==
    IF "Begin" \in F
    THEN [connectors |-> db.connectors, deployments |-> db.deployments,
          lastVersion |-> lv, invoked |-> FALSE, outcome |-> "begin_failed",
          rerr |-> ServiceErr("failed to create tx")]
    ELSE IF res.err # NoErr
    THEN [connectors |-> res.out.connectors, deployments |-> db.deployments,
          lastVersion |-> IF "Resolve" \in F THEN lv
                          ELSE RunPostCommitActions(res.post, lv),
          invoked |-> TRUE,
          outcome |-> IF "Resolve" \in F THEN "rollback_failed" ELSE "rolled_back",
          rerr |-> IF "Resolve" \in F THEN ServiceErr("failed to resolve tx")
                   ELSE IF res.err.svc THEN res.err ELSE ServiceErr(res.err.msg)]
    ELSE IF "Resolve" \in F
    THEN [connectors |-> res.out.connectors, deployments |-> db.deployments,
          lastVersion |-> lv, invoked |-> TRUE, outcome |-> "commit_failed",
          rerr |-> ServiceErr("failed to resolve tx")]
    ELSE [connectors |-> res.tx.connectors, deployments |-> res.tx.deployments,
          lastVersion |-> RunPostCommitActions(res.post, lv), invoked |-> TRUE,
          outcome |-> "committed", rerr |-> NoErr]

\* InDBTransaction(ctx, f): res is what f does when it is invoked.
InDBTransaction(db, F, res, lv) ==
    IF "Begin" \in F
    THEN [connectors |-> db.connectors, deployments |-> db.deployments,
          lastVersion |-> lv, invoked |-> FALSE, outcome |-> "begin_failed",
          rerr |-> ServiceErr("failed to create tx")]
    ELSE LET markedForRollback == res.err # NoErr
             inner == IF res.err = NoErr \/ res.err.svc THEN res.err
                      ELSE ServiceErr(res.err.msg)
         IN  IF markedForRollback
             THEN [connectors |-> res.out.connectors, deployments |-> db.deployments,
                   lastVersion |-> lv, invoked |-> TRUE,
                   outcome |-> IF "Resolve" \in F THEN "rollback_failed" ELSE "rolled_back",
                   rerr |-> IF "Resolve" \in F THEN ServiceErr("failed to resolve tx")
                            ELSE inner]
             ELSE IF "Resolve" \in F
             THEN [connectors |-> res.out.connectors, deployments |-> db.deployments,
                   lastVersion |-> lv, invoked |-> TRUE, outcome |-> "commit_failed",
                   rerr |-> ServiceErr("failed to resolve tx")]
             ELSE [connectors |-> res.tx.connectors, deployments |-> res.tx.deployments,
                   lastVersion |-> RunPostCommitActions(res.post, lv), invoked |-> TRUE,
                   outcome |-> "committed", rerr |-> NoErr]

\* ------------------------------------------------------ catalog reconciler
ReconcileConnectorCatalogEntry(store, id, md, F) ==
    LET rev == GetShardMetadataRevision(md)
        row == [entry |-> id, revision |-> rev.revision, blob |-> md]
    IN  IF rev.err # NoErr
        THEN [err |-> ServiceErr("failed to convert connector type"), store |-> store]
        ELSE IF "PutConnectorShardMetadata" \in F
        THEN [err |-> ServiceErr("failed to put shard metadata"), store |-> store]
        ELSE [err |-> NoErr, store |-> PutConnectorShardMetadata(store, row)]

\* ------------------------------------------------------------------- Init
EmptyFcn == [x \in {} |-> x]
NoTx ==
    [phase |-> "none", id |-> 0, invoked |-> FALSE, outcome |-> "none", rerr |-> NoErr,
     namespace |-> "none"]

\* a configured catalog whose first entry carries md under "connector_revision"
ConfigWith(md) == [e \in Entries |-> IF e = 1 THEN md ELSE MdNumber(2 * e)]

\* a well-formed catalog
GoodConfig == ConfigWith(MdNumber(2))

\* the catalogs a process may be configured with: only the first entry varies
Configs == {ConfigWith(md) : md \in {MdNumber(2), MdNumber(3), MdString, MdMissing}}

\* rows left by an earlier configuration: an entry no longer configured and an
\* older revision of the first entry
OldCatalog ==
    [e \in {1, OrphanEntry} |->
        [id |-> ShardMetadataId(e, 0), revision |-> 0, blob |-> MdNumber(0)]]

\* What the database may hold when a process starts: the connector and
\* deployment rows earlier processes and the external actors left behind.
Connector(id, desired, phase, rowNs, statusNs, version) ==
    [id |-> id, desired_state |-> desired, phase |-> phase, namespace_id |-> rowNs,
     status_namespace_id |-> statusNs, version |-> version, entry |-> EntryOf(id)]

Deployment(id, connectorId, ns, version) ==
    [id |-> id, connector_id |-> connectorId, cluster_id |-> ClusterOf(ns),
     namespace_id |-> ns, connector_version |-> version,
     connector_shard_metadata_id |-> ShardMetadataId(EntryOf(connectorId), 0)]

SeedRecord(conns, deps) ==
    [connectors |-> conns, deployments |-> deps,
     created |-> Cardinality(DOMAIN conns),
     nextVersion |-> Cardinality(DOMAIN conns) + Cardinality(deps) + 1,
     nextDeploymentId |-> Cardinality(deps) + 1]

\* no connector request yet
SeedEmpty == SeedRecord(EmptyFcn, {})

\* an assigned connector that was edited after its assignment; the edit has
\* not reached its deployment
SeedLagging ==
    SeedRecord(
        <<Connector(1, ConnectorReady, ConnectorStatusPhaseAssigned, "ns-1", "ns-1", 2)>>,
        {Deployment(1, 1, "ns-1", 1)})

\* a connector that was assigned and then unassigned
SeedUnassigned ==
    [SeedRecord(
        <<Connector(1, ConnectorUnassigned, ConnectorStatusPhaseDeleted, "ns-1", "ns-1", 1)>>,
        {})
     EXCEPT !.nextDeploymentId = 2]

\* an assigned connector whose deletion was requested, deployment still there
SeedDeleting ==
    SeedRecord(
        <<Connector(1, ConnectorDeleted, ConnectorStatusPhaseDeleting, "ns-1", "ns-1", 1)>>,
        {Deployment(1, 1, "ns-1", 1)})

Seeds == {SeedEmpty, SeedLagging, SeedUnassigned, SeedDeleting}

InitWith(rs, ls, cfgs, seeds) ==
    /\ \E seed \in seeds :
          /\ connectors = seed.connectors
          /\ deployments = seed.deployments
          /\ created = seed.created
          /\ nextVersion = seed.nextVersion
          /\ nextDeploymentId = seed.nextDeploymentId
    /\ catalogStore = OldCatalog
    /\ config \in cfgs
    /\ replicas = rs
    /\ leaders = ls
    /\ lastVersion = [r \in rs |-> 0]
    /\ startupReconcileDone = [r \in rs |-> FALSE]
    /\ startupReconcileWG = [r \in rs |-> 1]
    /\ ctx = [r \in rs |-> FALSE]
    /\ pc = [r \in rs |-> "idle"]
    /\ phaseIdx = [r \in rs |-> 0]
    /\ crTodo = [r \in rs |-> {}]
    /\ rows = [r \in rs |-> EmptyFcn]
    /\ errs = [r \in rs |-> <<>>]
    /\ probePc = [r \in rs |-> "check"]
    /\ ticks = 0
    /\ external = 0
    /\ failures = 0
    /\ doneWriters = [r \in rs |-> {}]
    /\ wgDoneCalls = [r \in rs |-> 0]
    /\ tickStartVersion = [r \in rs |-> 0]
    /\ ran = [r \in rs |-> {}]
    /\ crErr = [r \in rs |-> NoErr]
    /\ crCompleted = {}
    /\ selected = [r \in rs |-> EmptyFcn]
    /\ lastTx = [r \in rs |-> NoTx]
    /\ failedUpdate = [r \in rs |-> EmptyFcn]
    /\ calm = [r \in rs |-> "dirty"]

Init == InitWith({"A"}, {"A"}, {GoodConfig}, Seeds)

\* ------------------------------------------------------------- Reconcile
\* An unsynchronised read of startupReconcileDone by one goroutine: the
\* current value, or still false when only the other goroutine has set it.
ObservedDone(r, reader) ==
    {startupReconcileDone[r]} \cup
    (IF startupReconcileDone[r] /\ reader \notin doneWriters[r] THEN {FALSE} ELSE {})

\* a collaborator call either succeeds or, while the budget lasts, fails
MayFail == IF failures < MaxFailures THEN {FALSE, TRUE} ELSE {FALSE}
Spend(n) == failures' = failures + n

\* return []error{err}
ReturnErr(r, err) ==
    /\ errs' = [errs EXCEPT ![r] = <<err>>]
    /\ pc' = [pc EXCEPT ![r] = "returned"]

\* (variant) the error is collected and Reconcile carries on with the phases
CrReturnErr_Continue(r, err) ==
    /\ errs' = [errs EXCEPT ![r] = Append(@, err)]
    /\ pc' = [pc EXCEPT ![r] = "ctx"]
    /\ crErr' = [crErr EXCEPT ![r] = err]

\* lines 104, 113, 117: the startup catalog reconciliation gives up
CrReturnErr(r, err) ==
    /\ ReturnErr(r, err)
    /\ crErr' = [crErr EXCEPT ![r] = err]

\* line 98: if !k.startupReconcileDone
StartTick(r) ==
    /\ r \in leaders
    /\ pc[r] = "idle"
    /\ ticks < MaxTicks
    /\ ticks' = ticks + 1
    /\ \E seen \in ObservedDone(r, "reconcile") :
          pc' = [pc EXCEPT ![r] = IF seen THEN "ctx" ELSE "cr_delete"]
    /\ tickStartVersion' = [tickStartVersion EXCEPT ![r] = lastVersion[r]]
    /\ calm' = [calm EXCEPT ![r] = IF @ = "clean1" THEN @ ELSE "clean0"]
    /\ UNCHANGED <<dbVars, cfgVars, kVars, phaseIdx, crTodo, rows, errs, probePc, external,
                   failures, doneWriters, wgDoneCalls, ran, crErr, crCompleted,
                   selected, lastTx, failedUpdate>>

\* the driver takes the []error Reconcile returned; the next tick starts afresh
TickReturn(r) ==
    /\ pc[r] = "returned"
    /\ pc' = [pc EXCEPT ![r] = "idle"]
    /\ errs' = [errs EXCEPT ![r] = <<>>]
    /\ ran' = [ran EXCEPT ![r] = {}]
    /\ crErr' = [crErr EXCEPT ![r] = NoErr]
    /\ selected' = [selected EXCEPT ![r] = EmptyFcn]
    /\ lastTx' = [lastTx EXCEPT ![r] = NoTx]
    /\ failedUpdate' = [failedUpdate EXCEPT ![r] = [id \in DOMAIN @ |-> "earlier"]]
    /\ calm' = [calm EXCEPT ![r] = IF @ # "dirty" /\ errs[r] = <<>> THEN "clean1" ELSE "dirty"]
    /\ tickStartVersion' = [tickStartVersion EXCEPT ![r] = lastVersion[r]]
    /\ UNCHANGED <<dbVars, cfgVars, kVars, phaseIdx, crTodo, rows, probePc, budgetVars,
                   doneWriters, wgDoneCalls, crCompleted>>

\* lines 103-105
CrDeleteUnused(r) ==
    /\ pc[r] = "cr_delete"
    /\ \E fail \in MayFail :
          IF fail
          THEN /\ CrReturnErr(r, ServiceErr("DeleteUnusedAndNotInCatalog failed"))
               /\ Spend(1)
               /\ UNCHANGED <<catalogStore, crTodo>>
          ELSE /\ catalogStore' = DeleteUnusedAndNotInCatalog(catalogStore, config, connectors)
               /\ crTodo' = [crTodo EXCEPT ![r] = DOMAIN config]
               /\ pc' = [pc EXCEPT ![r] = "cr_entries"]
               /\ UNCHANGED <<errs, crErr, failures>>
    /\ UNCHANGED <<connectors, deployments, created, nextVersion, nextDeploymentId, cfgVars,
                   kVars, phaseIdx, rows, probePc, ticks, external, doneWriters, wgDoneCalls,
                   tickStartVersion, ran, crCompleted, selected, lastTx,
                   failedUpdate,
                   calm>>

\* lines 112-114: one callback of ForEachConnectorCatalogEntry, which stops at
\* the first error
CrCatalogEntry(r, e) ==
    /\ pc[r] = "cr_entries"
    /\ e \in crTodo[r]
    /\ \E fail \in MayFail :
          LET F == IF fail THEN {"PutConnectorShardMetadata"} ELSE {}
              res == ReconcileConnectorCatalogEntry(catalogStore, e, config[e], F)
          IN  /\ Spend(IF fail THEN 1 ELSE 0)
              /\ catalogStore' = res.store
              /\ IF res.err # NoErr
                 THEN /\ CrReturnErr(r, res.err)
                      /\ crTodo' = [crTodo EXCEPT ![r] = {}]
                 ELSE /\ crTodo' = [crTodo EXCEPT ![r] = @ \ {e}]
                      /\ pc' = [pc EXCEPT ![r] =
                                   IF crTodo[r] = {e} THEN "cr_cleanup" ELSE "cr_entries"]
                      /\ UNCHANGED <<errs, crErr>>
    /\ UNCHANGED <<connectors, deployments, created, nextVersion, nextDeploymentId, cfgVars,
                   kVars, phaseIdx, rows, probePc, ticks, external, doneWriters, wgDoneCalls,
                   tickStartVersion, ran, crCompleted, selected, lastTx, failedUpdate,
                   calm>>

\* (variant) Reconcile releases the wait group itself
MarkStartupDone_CallsDone(r) ==
    /\ startupReconcileDone' = [startupReconcileDone EXCEPT ![r] = TRUE]
    /\ doneWriters' = [doneWriters EXCEPT ![r] = @ \cup {"reconcile"}]
    /\ startupReconcileWG' = [startupReconcileWG EXCEPT ![r] = @ - 1]
    /\ wgDoneCalls' = [wgDoneCalls EXCEPT ![r] = @ + 1]

\* line 120: k.startupReconcileDone = true
MarkStartupDone(r) ==
    /\ startupReconcileDone' = [startupReconcileDone EXCEPT ![r] = TRUE]
    /\ doneWriters' = [doneWriters EXCEPT ![r] = @ \cup {"reconcile"}]
    /\ UNCHANGED <<startupReconcileWG, wgDoneCalls>>

\* lines 116-121
CrCleanupDeployments(r) ==
    /\ pc[r] = "cr_cleanup"
    /\ \E fail \in MayFail :
          IF fail
          THEN /\ CrReturnErr(r, ServiceErr("CleanupDeployments failed"))
               /\ Spend(1)
               /\ UNCHANGED <<deployments, startupReconcileDone, doneWriters, crCompleted,
                              startupReconcileWG, wgDoneCalls>>
          ELSE /\ deployments' = CleanupDeployments(deployments, connectors)
               /\ MarkStartupDone(r)
               /\ crCompleted' = crCompleted \cup {r}
               /\ pc' = [pc EXCEPT ![r] = "ctx"]
               /\ UNCHANGED <<errs, crErr, failures>>
    /\ UNCHANGED <<connectors, catalogStore, created, nextVersion, nextDeploymentId, cfgVars,
                   lastVersion, ctx, phaseIdx, crTodo, rows, probePc, ticks, external,
                   tickStartVersion, ran, selected, lastTx, failedUpdate,
                   calm>>

\* lines 124-130
EnsureContext(r) ==
    /\ pc[r] = "ctx"
    /\ \E fail \in (IF ctx[r] THEN {FALSE} ELSE MayFail) :
          IF fail
          THEN /\ ReturnErr(r, PlainErr("NewContext failed"))
               /\ Spend(1)
               /\ UNCHANGED <<ctx, phaseIdx>>
          ELSE /\ ctx' = [ctx EXCEPT ![r] = TRUE]
               /\ pc' = [pc EXCEPT ![r] = "scan"]
               /\ phaseIdx' = [phaseIdx EXCEPT ![r] = 1]
               /\ UNCHANGED <<errs, failures>>
    /\ UNCHANGED <<dbVars, cfgVars, lastVersion, startupReconcileDone, startupReconcileWG,
                   crTodo, rows, probePc, ticks, external, histVars>>

\* ----------------------------------------------------------- doReconcile
\* ConnectorsService.ForEach: the rows the query selects
ForEachSelect(phase, conns, lv) == {c \in DOMAIN conns : Query(phase, conns[c], lv)}

FailureSets(phase) ==
    {F \in SUBSET CallsOf(phase) : Cardinality(F) <= MaxFailures - failures}

Restrict(f, S) == [x \in DOMAIN f \cap S |-> f[x]]

\* the next doReconcile call of Reconcile, or its return after the fifth
Advance(r) ==
    IF phaseIdx[r] < Len(ReconcilePhases)
    THEN /\ pc' = [pc EXCEPT ![r] = "scan"]
         /\ phaseIdx' = [phaseIdx EXCEPT ![r] = @ + 1]
    ELSE /\ pc' = [pc EXCEPT ![r] = "returned"]
         /\ phaseIdx' = [phaseIdx EXCEPT ![r] = 0]

\* doReconcile, lines 316-320: ForEach runs the query with k.lastVersion bound
ScanPhase(r) ==
    /\ pc[r] = "scan"
    /\ LET phase == ReconcilePhases[phaseIdx[r]]
       IN  \E fail \in MayFail :
             LET sel == IF fail THEN {}
                        ELSE ForEachSelect(phase, connectors, lastVersion[r])
             IN  /\ rows' = [rows EXCEPT ![r] = [c \in sel |-> connectors[c]]]
                 /\ ran' = [ran EXCEPT ![r] = @ \cup {phase}]
                 /\ Spend(IF fail THEN 1 ELSE 0)
                 /\ errs' = [errs EXCEPT ![r] =
                               IF fail THEN Append(@, ServiceErr("scan failed")) ELSE @]
                 /\ selected' = [selected EXCEPT ![r] =
                                   IF fail \/ phase \notin {"deleting", "updated"} THEN @
                                   ELSE (phase :> sel) @@ @]
                 /\ lastTx' = [lastTx EXCEPT ![r] = NoTx]
                 /\ IF sel = {} THEN Advance(r)
                    ELSE /\ pc' = [pc EXCEPT ![r] = "rows"]
                         /\ UNCHANGED phaseIdx
    /\ UNCHANGED <<dbVars, cfgVars, kVars, crTodo, probePc, ticks, external, doneWriters,
                   wgDoneCalls, tickStartVersion, crErr, crCompleted, failedUpdate,
                   calm>>

\* InDBTransaction around the phase's per-row function, for one row
RowTransaction(phase, db, conn, F, namespace, found, newId, lv) ==
    InDBTransaction(db, F, reconcileFunc(phase, db, conn, F, namespace, found, newId), lv)

\* only a call that is made can fail: dropping any failure from F changes
\* what the row does
Effective(phase, db, conn, F, namespace, found, newId, lv) ==
    \A x \in F :
        RowTransaction(phase, db, conn, F \ {x}, namespace, found, newId, lv)
            # RowTransaction(phase, db, conn, F, namespace, found, newId, lv)

\* doReconcile, lines 320-330: the callback for one row; the calls that fail
\* are limited by the failure budget unless anyFailure
RowCallback(r, id, anyFailure) ==
    /\ pc[r] = "rows"
    /\ id \in DOMAIN rows[r]
    /\ LET phase == ReconcilePhases[phaseIdx[r]]
           conn == rows[r][id]
       IN  \E F \in (IF anyFailure THEN SUBSET CallsOf(phase) ELSE FailureSets(phase)) :
           \E namespace \in FindAvailableNamespace(conn.namespace_id) :
           \E found \in GetDeploymentByConnectorId(deployments, id) :
             LET t == RowTransaction(phase, DB, conn, F, namespace, found,
                                     nextDeploymentId, lastVersion[r])
             IN  /\ Effective(phase, DB, conn, F, namespace, found,
                              nextDeploymentId, lastVersion[r])
                 /\ connectors' = t.connectors
                 /\ deployments' = t.deployments
                 /\ nextDeploymentId' =
                        IF \E d \in t.deployments : d.id = nextDeploymentId
                        THEN nextDeploymentId + 1 ELSE nextDeploymentId
                 /\ lastVersion' = [lastVersion EXCEPT ![r] = t.lastVersion]
                 /\ errs' = [errs EXCEPT ![r] =
                               IF t.rerr = NoErr THEN @ ELSE Append(@, t.rerr)]
                 /\ lastTx' = [lastTx EXCEPT ![r] =
                                 [phase |-> phase, id |-> id, invoked |-> t.invoked,
                                  outcome |-> t.outcome, rerr |-> t.rerr,
                                  \* what FindAvailableNamespace returned, if called
                                  namespace |->
                                      IF phase = "assigning" /\ t.invoked
                                         /\ "FindAvailableNamespace" \notin F
                                      THEN namespace ELSE "none"]]
                 /\ failedUpdate' = [failedUpdate EXCEPT ![r] =
                                       IF phase # "updated" THEN @
                                       ELSE IF t.outcome = "committed"
                                       THEN Restrict(@, DOMAIN @ \ {id})
                                       ELSE (id :> "this_tick") @@ @]
                 \* a namespace that is not ready yet leaves work for a later tick
                 /\ calm' = [calm EXCEPT ![r] =
                               IF phase = "assigning" /\ t.invoked /\ namespace = Nil
                                  /\ "FindAvailableNamespace" \notin F
                               THEN "dirty" ELSE @]
                 /\ Spend(Cardinality(F))
    /\ rows' = [rows EXCEPT ![r] = Restrict(@, DOMAIN @ \ {id})]
    /\ IF DOMAIN rows[r] = {id} THEN Advance(r) ELSE UNCHANGED <<pc, phaseIdx>>
    /\ UNCHANGED <<catalogStore, created, nextVersion, cfgVars, startupReconcileDone,
                   startupReconcileWG, ctx, crTodo, probePc, ticks, external, doneWriters,
                   wgDoneCalls, tickStartVersion, ran, crErr, crCompleted, selected>>

ReconcileRow(r, id) == RowCallback(r, id, FALSE)

\* --------------------------------------------- runStartupReconcileCheckWorker
\* line 342: the loop condition; lines 356-357 when it is false
ProbeCheck(r) ==
    /\ probePc[r] = "check"
    /\ \E seen \in ObservedDone(r, "probe") :
          IF seen
          THEN /\ startupReconcileWG' = [startupReconcileWG EXCEPT ![r] = @ - 1]
               /\ wgDoneCalls' = [wgDoneCalls EXCEPT ![r] = @ + 1]
               /\ probePc' = [probePc EXCEPT ![r] = "exited"]
          ELSE /\ probePc' = [probePc EXCEPT ![r] = "call"]
               /\ UNCHANGED <<startupReconcileWG, wgDoneCalls>>
    /\ UNCHANGED <<dbVars, cfgVars, lastVersion, startupReconcileDone, ctx, tickVars,
                   budgetVars, doneWriters, tickStartVersion, ran, crErr, crCompleted,
                   selected, lastTx, failedUpdate,
                   calm>>

\* (variant) the probe sleeps whatever CatalogEntriesReconciled answered
ProbeOutcome_IgnoresDone(done, failed) ==
    IF failed THEN "retry"
    ELSE "sleep"

\* lines 347-354: what one iteration does with the (done, err) it got
ProbeOutcome(done, failed) ==
    IF failed THEN "retry"
    ELSE IF done THEN "set"
    ELSE "sleep"

\* lines 346-354
ProbeCall(r) ==
    /\ probePc[r] = "call"
    /\ \E fail \in MayFail :
          LET outcome == ProbeOutcome(CatalogEntriesReconciled(catalogStore, config), fail)
          IN  /\ Spend(IF fail THEN 1 ELSE 0)
              /\ probePc' = [probePc EXCEPT ![r] =
                               IF outcome = "sleep" THEN "sleep" ELSE "check"]
              /\ IF outcome = "set"
                 THEN /\ startupReconcileDone' = [startupReconcileDone EXCEPT ![r] = TRUE]
                      /\ doneWriters' = [doneWriters EXCEPT ![r] = @ \cup {"probe"}]
                 ELSE UNCHANGED <<startupReconcileDone, doneWriters>>
    /\ UNCHANGED <<dbVars, cfgVars, lastVersion, startupReconcileWG, ctx, tickVars, ticks,
                   external, wgDoneCalls, tickStartVersion, ran, crErr, crCompleted,
                   selected, lastTx, failedUpdate,
                   calm>>

\* lines 346-348 while the store cannot be reached: CatalogEntriesReconciled
\* returns an error, every time it is called
ProbeCallErr(r) ==
    /\ probePc[r] = "call"
    /\ ProbeOutcome(CatalogEntriesReconciled(catalogStore, config), TRUE) = "retry"
    /\ probePc' = [probePc EXCEPT ![r] = "check"]
    /\ UNCHANGED <<dbVars, cfgVars, kVars, tickVars, budgetVars, histVars>>

\* line 353: time.Sleep(checkCatalogEntriesDuration)
ProbeSleep(r) ==
    /\ probePc[r] = "sleep"
    /\ probePc' = [probePc EXCEPT ![r] = "check"]
    /\ UNCHANGED <<dbVars, cfgVars, kVars, tickVars, budgetVars, histVars>>

\* ------------------------------------------------------- external actors
Touched(c) ==
    failedUpdate' = [r \in replicas |-> Restrict(failedUpdate[r], DOMAIN failedUpdate[r] \ {c})]

\* (the instant at which Reconcile hands back its result is not a point at
\* which anything else needs to be interleaved)
ExternalFrame ==
    /\ \A r \in replicas : pc[r] # "returned"
    /\ external < MaxExternal
    /\ external' = external + 1
    /\ calm' = [r \in replicas |-> "dirty"]
    /\ UNCHANGED <<catalogStore, nextDeploymentId, cfgVars, kVars, tickVars, probePc, ticks,
                   failures, doneWriters, wgDoneCalls, tickStartVersion, ran, crErr,
                   crCompleted, selected, lastTx>>

\* the API accepts a connector request (namespace ids are interchangeable, so
\* requests name the first one)
ExtCreate(ns) ==
    /\ ExternalFrame
    /\ created' = created + 1
    /\ connectors' = (created + 1 :>
                        Connector(created + 1, ConnectorReady,
                                  ConnectorStatusPhaseAssigning, ns, Nil, nextVersion))
                      @@ connectors
    /\ nextVersion' = nextVersion + 1
    /\ UNCHANGED <<deployments, failedUpdate>>

\* a user edit: the version sequence hands out a larger version
ExtEdit(c) ==
    /\ ExternalFrame
    /\ c \in DOMAIN connectors
    /\ connectors[c].desired_state # ConnectorDeleted
    /\ connectors' = [connectors EXCEPT ![c].version = nextVersion]
    /\ nextVersion' = nextVersion + 1
    /\ Touched(c)
    /\ UNCHANGED <<deployments, created>>

\* delete intent: an assigned connector starts being torn down
ExtDelete(c) ==
    /\ ExternalFrame
    /\ c \in DOMAIN connectors
    /\ connectors[c].desired_state # ConnectorDeleted
    /\ connectors' = [connectors EXCEPT
                         ![c].desired_state = ConnectorDeleted,
                         ![c].phase = IF @ = ConnectorStatusPhaseAssigned
                                      THEN ConnectorStatusPhaseDeleting ELSE @]
    /\ Touched(c)
    /\ UNCHANGED <<deployments, created, nextVersion>>

\* the cluster side removes the deployment of a connector being deleted
ExtTeardown(c) ==
    /\ ExternalFrame
    /\ c \in DOMAIN connectors
    /\ connectors[c].phase = ConnectorStatusPhaseDeleting
    /\ \E d \in deployments : d.connector_id = c
    /\ deployments' = {d \in deployments : d.connector_id # c}
    /\ Touched(c)
    /\ UNCHANGED <<connectors, created, nextVersion>>

\* unassign intent: the deployment is removed and the phase reported deleted
ExtUnassign(c) ==
    /\ ExternalFrame
    /\ c \in DOMAIN connectors
    /\ connectors[c].desired_state = ConnectorReady
    /\ connectors[c].phase = ConnectorStatusPhaseAssigned
    /\ connectors' = [connectors EXCEPT ![c].desired_state = ConnectorUnassigned,
                                        ![c].phase = ConnectorStatusPhaseDeleted]
    /\ deployments' = {d \in deployments : d.connector_id # c}
    /\ Touched(c)
    /\ UNCHANGED <<created, nextVersion>>

\* an unassigned connector is pointed at a namespace again
ExtReassign(c, ns) ==
    /\ ExternalFrame
    /\ c \in DOMAIN connectors
    /\ connectors[c].desired_state = ConnectorUnassigned
    /\ connectors' = [connectors EXCEPT ![c].desired_state = ConnectorReady,
                                        ![c].namespace_id = ns]
    /\ Touched(c)
    /\ UNCHANGED <<deployments, created, nextVersion>>

\* ------------------------------------------------------------------- Next
Tick(r) ==
    \/ StartTick(r)
    \/ CrDeleteUnused(r)
    \/ \E e \in Entries : CrCatalogEntry(r, e)
    \/ CrCleanupDeployments(r)
    \/ EnsureContext(r)
    \/ ScanPhase(r)
    \/ \E id \in DOMAIN rows[r] : ReconcileRow(r, id)
    \/ TickReturn(r)

Probe(r) ==
    \/ ProbeCheck(r)
    \/ ProbeCall(r)
    \/ ProbeSleep(r)

External ==
    \/ ExtCreate("ns-1")
    \/ \E c \in DOMAIN connectors : ExtEdit(c)
    \/ \E c \in DOMAIN connectors : ExtDelete(c)
    \/ \E c \in DOMAIN connectors : ExtTeardown(c)
    \/ \E c \in DOMAIN connectors : ExtUnassign(c)
    \/ \E c \in DOMAIN connectors : \E ns \in NamespaceIds : ExtReassign(c, ns)

Next ==
    \/ \E r \in replicas : Tick(r)
    \/ \E r \in replicas : Probe(r)
    \/ External

Spec == Init /\ [][Next]_vars

\* The startup of a process under any of the configured catalogs, with no
\* connector requests: the scans find no rows.
InitStartup == InitWith({"A"}, {"A"}, Configs, {SeedEmpty})

TickStartup(r) ==
    \/ StartTick(r)
    \/ CrDeleteUnused(r)
    \/ \E e \in Entries : CrCatalogEntry(r, e)
    \/ CrCleanupDeployments(r)
    \/ EnsureContext(r)
    \/ ScanPhase(r)
    \/ TickReturn(r)

NextStartup ==
    \/ \E r \in replicas : TickStartup(r)
    \/ \E r \in replicas : Probe(r)

SpecStartup == InitStartup /\ [][NextStartup]_vars

\* Two processes on one database: the reconciler driver of A invokes
\* Reconcile, that of B never does. Each process started its probe goroutine
\* in NewConnectorManager; the Go scheduler runs a runnable goroutine
\* eventually and time.Sleep ends, hence weak fairness of each probe.
InitFleet == InitWith({"A", "B"}, {"A"}, {GoodConfig}, {SeedEmpty})

ProbeFairness == WF_vars(Probe("A")) /\ WF_vars(Probe("B"))

SpecFleet == InitFleet /\ [][NextStartup]_vars /\ ProbeFairness

\* The startup of one process whose probe may find the store unreachable any
\* number of times; the probe goroutine is scheduled fairly.
ProbeDuringOutage(r) ==
    \/ Probe(r)
    \/ ProbeCallErr(r)

NextOutage ==
    \/ \E r \in replicas : TickStartup(r)
    \/ \E r \in replicas : ProbeDuringOutage(r)

SpecOutage == InitStartup /\ [][NextOutage]_vars /\ WF_vars(ProbeDuringOutage("A"))

\* ---- the per-row functions applied to the rows a scan has just selected
\* a connector request waiting for its namespace
SeedRequested ==
    SeedRecord(
        <<Connector(1, ConnectorReady, ConnectorStatusPhaseAssigning, "ns-1", Nil, 1)>>,
        {})

\* a connector being deleted whose deployment the cluster side has removed
SeedTornDown ==
    [SeedRecord(
        <<Connector(1, ConnectorDeleted, ConnectorStatusPhaseDeleting, "ns-1", "ns-1", 1)>>,
        {})
     EXCEPT !.nextDeploymentId = 2]

\* a connector whose deletion was requested before it was assigned
SeedRemovable ==
    SeedRecord(
        <<Connector(1, ConnectorDeleted, ConnectorStatusPhaseAssigning, "ns-1", Nil, 1)>>,
        {})

\* an assigned connector whose deployment has the connector's version
SeedInSync ==
    SeedRecord(
        <<Connector(1, ConnectorReady, ConnectorStatusPhaseAssigned, "ns-2", "ns-2", 2)>>,
        {Deployment(1, 1, "ns-2", 2)})

RowSeeds ==
    {SeedLagging, SeedUnassigned, SeedDeleting, SeedRequested, SeedTornDown, SeedRemovable,
     SeedInSync}

\* the stored catalog once the configured entries have been upserted
ReconciledCatalog ==
    [e \in Entries |->
        LET revision == GetShardMetadataRevision(GoodConfig[e]).revision
        IN  [id |-> ShardMetadataId(e, revision), revision |-> revision,
             blob |-> GoodConfig[e]]]

\* A process past its startup, in a tick whose scan of some phase has just
\* selected rows; lastVersion is 0 (after a restart) or 1.
InitRow ==
    /\ \E seed \in RowSeeds : \E i \in 1..Len(ReconcilePhases) : \E lv \in {0, 1} :
          LET sel == ForEachSelect(ReconcilePhases[i], seed.connectors, lv)
          IN  /\ sel # {}
              /\ connectors = seed.connectors
              /\ deployments = seed.deployments
              /\ created = seed.created
              /\ nextVersion = seed.nextVersion
              /\ nextDeploymentId = seed.nextDeploymentId
              /\ lastVersion = [r \in {"A"} |-> lv]
              /\ tickStartVersion = [r \in {"A"} |-> lv]
              /\ phaseIdx = [r \in {"A"} |-> i]
              /\ rows = [r \in {"A"} |-> [c \in sel |-> seed.connectors[c]]]
              /\ ran = [r \in {"A"} |-> {ReconcilePhases[j] : j \in 1..i}]
              /\ selected = [r \in {"A"} |->
                                IF ReconcilePhases[i] \in {"deleting", "updated"}
                                THEN (ReconcilePhases[i] :> sel) ELSE EmptyFcn]
    /\ catalogStore = ReconciledCatalog
    /\ config = GoodConfig
    /\ replicas = {"A"}
    /\ leaders = {"A"}
    /\ startupReconcileDone = [r \in {"A"} |-> TRUE]
    /\ startupReconcileWG = [r \in {"A"} |-> 0]
    /\ ctx = [r \in {"A"} |-> TRUE]
    /\ pc = [r \in {"A"} |-> "rows"]
    /\ crTodo = [r \in {"A"} |-> {}]
    /\ errs = [r \in {"A"} |-> <<>>]
    /\ probePc = [r \in {"A"} |-> "exited"]
    /\ ticks = 1
    /\ external = 0
    /\ failures = 0
    /\ doneWriters = [r \in {"A"} |-> {"reconcile"}]
    /\ wgDoneCalls = [r \in {"A"} |-> 1]
    /\ crErr = [r \in {"A"} |-> NoErr]
    /\ crCompleted = {"A"}
    /\ lastTx = [r \in {"A"} |-> NoTx]
    /\ failedUpdate = [r \in {"A"} |-> EmptyFcn]
    /\ calm = [r \in {"A"} |-> "dirty"]

\* the callback with any of its collaborator calls failing
RowApply(r) == \E id \in DOMAIN rows[r] : RowCallback(r, id, TRUE)

NextRow ==
    \/ \E r \in replicas : RowApply(r)
    \/ \E r \in replicas : ScanPhase(r)
    \/ \E r \in replicas : TickReturn(r)
    \/ \E r \in replicas : StartTick(r)
    \/ \E r \in replicas : EnsureContext(r)

SpecRow == InitRow /\ [][NextRow]_vars

\* ---- two processes past their startup whose drivers both invoke Reconcile
\* on the same database (the driver is not leader-elected)
InitRace ==
    /\ \E seed \in RowSeeds :
          /\ connectors = seed.connectors
          /\ deployments = seed.deployments
          /\ created = seed.created
          /\ nextVersion = seed.nextVersion
          /\ nextDeploymentId = seed.nextDeploymentId
    /\ catalogStore = ReconciledCatalog
    /\ config = GoodConfig
    /\ replicas = {"A", "B"}
    /\ leaders = {"A", "B"}
    /\ lastVersion = [r \in {"A", "B"} |-> 0]
    /\ tickStartVersion = [r \in {"A", "B"} |-> 0]
    /\ startupReconcileDone = [r \in {"A", "B"} |-> TRUE]
    /\ startupReconcileWG = [r \in {"A", "B"} |-> 0]
    /\ ctx = [r \in {"A", "B"} |-> TRUE]
    /\ pc = [r \in {"A", "B"} |-> "idle"]
    /\ phaseIdx = [r \in {"A", "B"} |-> 0]
    /\ crTodo = [r \in {"A", "B"} |-> {}]
    /\ rows = [r \in {"A", "B"} |-> EmptyFcn]
    /\ errs = [r \in {"A", "B"} |-> <<>>]
    /\ probePc = [r \in {"A", "B"} |-> "exited"]
    /\ ticks = 0
    /\ external = 0
    /\ failures = 0
    /\ doneWriters = [r \in {"A", "B"} |-> {"reconcile"}]
    /\ wgDoneCalls = [r \in {"A", "B"} |-> 1]
    /\ ran = [r \in {"A", "B"} |-> {}]
    /\ crErr = [r \in {"A", "B"} |-> NoErr]
    /\ crCompleted = {"A", "B"}
    /\ selected = [r \in {"A", "B"} |-> EmptyFcn]
    /\ lastTx = [r \in {"A", "B"} |-> NoTx]
    /\ failedUpdate = [r \in {"A", "B"} |-> EmptyFcn]
    /\ calm = [r \in {"A", "B"} |-> "dirty"]

NextRace ==
    \/ \E r \in replicas : StartTick(r)
    \/ \E r \in replicas : EnsureContext(r)
    \/ \E r \in replicas : ScanPhase(r)
    \/ \E r \in replicas : \E id \in DOMAIN rows[r] : ReconcileRow(r, id)
    \/ \E r \in replicas : TickReturn(r)

SpecRace == InitRace /\ [][NextRace]_vars

\* ---- the two reconciling processes with the external actors acting on the
\* same database, between any two of their steps
NextInterleaved ==
    \/ NextRace
    \/ External

SpecInterleaved == InitRace /\ [][NextInterleaved]_vars

TypeOK ==
    /\ \A r \in replicas : pc[r] \in {"idle", "cr_delete", "cr_entries", "cr_cleanup",
                                      "ctx", "scan", "rows", "returned"}
    /\ \A r \in replicas : probePc[r] \in {"check", "call", "sleep", "exited"}
    /\ \A c \in DOMAIN connectors : connectors[c].id = c

\* ================================================================ properties
Unpropagated(id) ==
    /\ id \in DOMAIN connectors
    /\ connectors[id].phase = ConnectorStatusPhaseAssigned
    /\ \E d \in deployments :
          d.connector_id = id /\ d.connector_version # connectors[id].version

Max(a, b) == IF a >= b THEN a ELSE b

\* C1: every connector in phase assigned has a Deployment carrying its id and
\* a non-null namespace_id equal to the namespace_id saved in its status.
C1_AssignedHasDeployment ==
    \A c \in DOMAIN connectors :
        connectors[c].phase = ConnectorStatusPhaseAssigned =>
            \E d \in deployments :
                /\ d.connector_id = c
                /\ d.namespace_id # Nil
                /\ d.namespace_id = connectors[c].status_namespace_id

C1_Witness ==
    \E r \in replicas : \E c \in DOMAIN connectors :
        /\ connectors[c].phase = ConnectorStatusPhaseAssigned
        /\ lastTx[r].phase = "assigning"
        /\ lastTx[r].id = c
        /\ lastTx[r].outcome = "committed"

\* C2: at most one Deployment exists for each connector id.
C2_AtMostOneDeployment ==
    \A d1 \in deployments : \A d2 \in deployments :
        d1.connector_id = d2.connector_id => d1 = d2

\* a connector that had a deployment before (deployment id 1 is used up) is
\* assigned again after unassign, PR-unassigned, reassign and PR-assigning
C2_Witness ==
    /\ created = 1
    /\ \E d \in deployments : d.connector_id = 1 /\ d.id = 2
    /\ connectors[1].phase = ConnectorStatusPhaseAssigned

\* C3: the wait group is released by exactly one Done call, never a second
\* one, and once released it stays released, whoever set the flag.
C3_GateReleasedOnce ==
    /\ [](\A r \in replicas :
            /\ wgDoneCalls[r] <= 1
            /\ startupReconcileWG[r] = 1 - wgDoneCalls[r])
    /\ [][\A r \in replicas :
            startupReconcileWG[r] = 0 => startupReconcileWG'[r] = 0]_vars

C3_Witness ==
    \E r \in replicas :
        /\ startupReconcileWG[r] = 0
        /\ wgDoneCalls[r] = 1
        /\ doneWriters[r] = {"reconcile", "probe"}

\* C4: whenever a replica's gate is released, some replica has completed the
\* whole catalog reconciliation, CleanupDeployments included.
C4_ReleasedOnlyAfterWholeCR ==
    \A r \in replicas : startupReconcileWG[r] = 0 => crCompleted # {}

\* C5: when a step of the startup catalog reconciliation fails, Reconcile
\* returns exactly that one error, runs no phase reconciler in that tick and
\* does not set the startup-done flag.
C5_CatalogErrorAbortsTick ==
    \A r \in replicas :
        (pc[r] = "returned" /\ crErr[r] # NoErr) =>
            /\ errs[r] = <<crErr[r]>>
            /\ ran[r] = {}
            /\ "reconcile" \notin doneWriters[r]

C5_Witness ==
    \E r \in replicas :
        /\ pc[r] = "returned"
        /\ crErr[r] = ServiceErr("CleanupDeployments failed")

\* C6: with a configured entry lacking connector_revision every tick's
\* catalog reconciliation fails and the gate is never released.
C6_MissingRevisionKeepsGateClosed ==
    (\E e \in DOMAIN config : ~config[e].found) =>
        \A r \in replicas :
            /\ startupReconcileWG[r] = 1
            /\ ~startupReconcileDone[r]
            /\ pc[r] = "returned" => crErr[r] # NoErr

C6_Witness ==
    \E r \in replicas :
        /\ ~config[1].found
        /\ ticks >= 2
        /\ pc[r] = "returned"
        /\ errs[r] = <<ServiceErr("failed to convert connector type")>>
        /\ startupReconcileWG[r] = 1

\* C7: at the end of a tick lastVersion is at least what it was at the start
\* of that tick.
C7_MarkNotLowerAtTickEnd ==
    \A r \in replicas : pc[r] = "returned" => lastVersion[r] >= tickStartVersion[r]

C7_Witness ==
    \E r \in replicas :
        /\ pc[r] = "returned"
        /\ tickStartVersion[r] > 0
        /\ lastVersion[r] > tickStartVersion[r]

\* C8: each post-commit action of PR-update sets the mark to the maximum of
\* its previous value and the row's version, so no step decreases the mark.
C8_MarkNeverDecreases ==
    [][\A r \in replicas :
          /\ lastVersion'[r] >= lastVersion[r]
          /\ (pc[r] = "rows" /\ rows'[r] # rows[r] /\ lastTx'[r].phase = "updated"
                /\ lastTx'[r].outcome = "committed")
             => lastVersion'[r] = Max(lastVersion[r], rows[r][lastTx'[r].id].version)]_vars

\* C9: lastVersion changes only in the step of a PR-update row whose
\* transaction commits; nothing else, and no rolled back row, changes it.
C9_MarkChangesOnlyOnUpdateCommit ==
    [][\A r \in replicas :
          lastVersion'[r] # lastVersion[r] =>
              /\ pc[r] = "rows"
              /\ ReconcilePhases[phaseIdx[r]] = "updated"
              /\ rows'[r] # rows[r]
              /\ lastTx'[r].phase = "updated"
              /\ lastTx'[r].outcome = "committed"]_vars

\* a PR-update row whose SaveDeployment failed was rolled back
C9_Witness ==
    \E r \in replicas :
        /\ lastTx[r].phase = "updated"
        /\ lastTx[r].outcome = "rolled_back"
        /\ lastTx[r].rerr = ServiceErr("failed to update connector version in deployment")
        /\ lastVersion[r] > 0

\* C10: a row whose PR-update failed on an earlier tick, and whose version is
\* still not propagated to its deployment, is selected by the next successful
\* "updated" scan.
C10_FailedUpdateRetried ==
    \A r \in replicas : \A id \in DOMAIN failedUpdate[r] :
        (/\ failedUpdate[r][id] = "earlier"
         /\ "updated" \in DOMAIN selected[r]
         /\ Unpropagated(id))
        => id \in selected[r]["updated"]

\* the step of replica r is the callback of doReconcile for one row of the
\* given phase
RowStep(r, phase) ==
    /\ pc[r] = "rows"
    /\ ReconcilePhases[phaseIdx[r]] = phase
    /\ rows'[r] # rows[r]

\* C11: a committed PR-update row whose scanned version is the connector's
\* current version (all bumps came before the scan) replaces the deployment's
\* connector_version by that version in one write, whatever it was before, and
\* nothing but a PR-update row ever rewrites a deployment's connector_version.
C11_UpdateWritesFinalVersionOnce ==
    [][/\ \A r \in replicas :
             (/\ RowStep(r, "updated")
              /\ lastTx'[r].outcome = "committed"
              /\ lastTx'[r].id \in DOMAIN connectors
              /\ connectors[lastTx'[r].id].version = rows[r][lastTx'[r].id].version)
             => \A d \in deployments :
                   d.connector_id = lastTx'[r].id =>
                      /\ deployments' = (deployments \ {d}) \cup
                            {[d EXCEPT !.connector_version = connectors[d.connector_id].version]}
                      /\ connectors' = connectors
       /\ \A d \in deployments : \A e \in deployments' :
             (d.id = e.id /\ d.connector_version # e.connector_version)
             => \E r \in replicas :
                   /\ RowStep(r, "updated")
                   /\ lastTx'[r].id = d.connector_id
                   /\ e.connector_version = rows[r][d.connector_id].version]_vars

\* the deployment that was two versions behind is at the connector's version
\* after the only tick so far
C11_Witness ==
    \E r \in replicas : \E d \in deployments :
        /\ ticks = 1
        /\ lastTx[r].phase = "updated"
        /\ lastTx[r].outcome = "committed"
        /\ lastTx[r].id = 1
        /\ d.connector_id = 1
        /\ d.connector_version = 3
        /\ connectors[1].version = 3

\* C12: a tick that follows a tick which returned no error, with nothing
\* changed from outside since that tick started, writes nothing to the
\* connectors, their statuses or the deployments and leaves lastVersion as it
\* is.
C12_QuietTickIsNoOp ==
    [][\A r \in replicas :
          (calm[r] = "clean1" /\ pc[r] # "idle" /\ external' = external)
          => /\ connectors' = connectors
             /\ deployments' = deployments
             /\ lastVersion'[r] = lastVersion[r]]_vars

IsPrefix(a, b) == Len(a) <= Len(b) /\ SubSeq(b, 1, Len(a)) = a

\* the first n phase reconcilers of the order the specification gives
FirstPhases(n) ==
    {<<"assigning", "unassigned", "deleting", "deleted", "updated">>[i] : i \in 1..n}

\* C13: in a tick the phase reconcilers run in the order assigning,
\* unassigned, deleting, deleted, updated; once the first has run all five run,
\* whatever fails; and no error is dropped from the list Reconcile returns: a
\* failed scan and a failed row transaction each append theirs.
C13_PhasesInOrderErrorsKept ==
    /\ [](\A r \in replicas :
            /\ \E n \in 0..5 : ran[r] = FirstPhases(n)
            /\ (pc[r] = "returned" /\ ran[r] # {}) => ran[r] = FirstPhases(5))
    /\ [][\A r \in replicas :
            /\ (pc[r] \in {"scan", "rows"} /\ pc'[r] # "idle")
               => IsPrefix(errs[r], errs'[r])
            /\ (pc[r] = "scan" /\ ran'[r] # ran[r] /\ failures' > failures)
               => errs'[r] = Append(errs[r], ServiceErr("scan failed"))
            /\ (pc[r] = "rows" /\ rows'[r] # rows[r] /\ lastTx'[r].rerr # NoErr)
               => errs'[r] = Append(errs[r], lastTx'[r].rerr)]_vars

\* a scan before the last one failed, yet the "updated" scan ran and
\* succeeded, and Reconcile returns the scan's error
C13_Witness ==
    \E r \in replicas :
        /\ pc[r] = "returned"
        /\ errs[r] = <<ServiceErr("scan failed")>>
        /\ "updated" \in DOMAIN selected[r]
        /\ ran[r] = {"assigning", "unassigned", "deleting", "deleted", "updated"}

\* C14: connector rows come into being only through a create request, under
\* an id never used before, so a hard-deleted row is never recreated by a
\* phase reconciler; and a row with desired_state deleted and phase deleted is
\* selected by the "deleted" query and by no other.
C14_DeletedStaysDeleted ==
    /\ [](\A r \in replicas :
            /\ \A c \in DOMAIN connectors :
                  (connectors[c].desired_state = ConnectorDeleted
                     /\ connectors[c].phase = ConnectorStatusPhaseDeleted)
                  => \A i \in DOMAIN ReconcilePhases :
                        Query(ReconcilePhases[i], connectors[c], lastVersion[r])
                           <=> ReconcilePhases[i] = "deleted"
            /\ \A id \in DOMAIN rows[r] :
                  (rows[r][id].desired_state = ConnectorDeleted
                     /\ rows[r][id].phase = ConnectorStatusPhaseDeleted)
                  => ReconcilePhases[phaseIdx[r]] = "deleted"
            /\ \A id \in DOMAIN connectors : id <= created)
    /\ [][\A id \in DOMAIN connectors' \ DOMAIN connectors :
            /\ external' = external + 1
            /\ id = created + 1
            /\ created' = created + 1]_vars

\* PR-deleted has just hard-deleted a connector, in the second tick
C14_Witness ==
    \E r \in replicas :
        /\ lastTx[r].phase = "deleted"
        /\ lastTx[r].outcome = "committed"
        /\ lastTx[r].id \notin DOMAIN connectors
        /\ lastTx[r].id <= created
        /\ ticks = 2

\* the row the callback is given is still what the database holds
RowIsCurrent(r, id) == id \in DOMAIN connectors /\ connectors[id] = rows[r][id]

\* C15: the round trip unassign, PR-unassigned, reassign, PR-assigning: a
\* committed PR-unassigned row takes the connector to phase assigning with no
\* namespace, and a committed PR-assigning row that was given a namespace takes
\* it to phase assigned with a deployment that did not exist before, is the
\* connector's only one and carries the connector's current version.
C15_RoundTripFreshDeployment ==
    [][\A r \in replicas :
          LET id == lastTx'[r].id
          IN  /\ (/\ RowStep(r, "unassigned")
                  /\ lastTx'[r].outcome = "committed"
                  /\ RowIsCurrent(r, id))
                 => /\ connectors'[id].phase = ConnectorStatusPhaseAssigning
                    /\ connectors'[id].namespace_id = Nil
                    /\ connectors'[id].desired_state = ConnectorUnassigned
                    /\ deployments' = deployments
              /\ (/\ RowStep(r, "assigning")
                  /\ lastTx'[r].outcome = "committed"
                  /\ lastTx'[r].namespace \in NamespaceIds
                  /\ RowIsCurrent(r, id))
                 => /\ connectors'[id].phase = ConnectorStatusPhaseAssigned
                    /\ \E d \in deployments' :
                          /\ \A e \in deployments : e.id # d.id
                          /\ d.connector_id = id
                          /\ d.connector_version = connectors'[id].version
                          /\ \A e \in deployments' : e.connector_id = id => e = d]_vars

\* the connector that was unassigned (its first deployment is gone) has been
\* through PR-unassigned, a reassignment and, in the second tick, PR-assigning
C15_Witness ==
    \E r \in replicas : \E d \in deployments :
        /\ ticks = 2
        /\ lastTx[r].phase = "assigning"
        /\ lastTx[r].id = 1
        /\ lastTx[r].outcome = "committed"
        /\ lastTx[r].namespace \in NamespaceIds
        /\ connectors[1].phase = ConnectorStatusPhaseAssigned
        /\ d.connector_id = 1
        /\ d.id = 2
        /\ d.connector_version = connectors[1].version

\* C16: a PR-assigning row (desired ready, phase assigning, namespace id set)
\* that is given a namespace, finds shard metadata and meets no failing call
\* leaves the connector in phase assigned, with that namespace in its status,
\* and adds exactly the deployment made of the connector's id, the namespace's
\* id and cluster, the stored shard metadata id of the connector's catalog
\* entry and the connector's version.
C16_AssigningCreatesDeployment ==
    [][\A r \in replicas :
          LET id == lastTx'[r].id
              ns == lastTx'[r].namespace
          IN  (/\ RowStep(r, "assigning")
               /\ lastTx'[r].outcome = "committed"
               /\ ns \in NamespaceIds
               /\ RowIsCurrent(r, id))
              => /\ connectors[id].desired_state = ConnectorReady
                 /\ connectors[id].namespace_id # Nil
                 /\ connectors' =
                       [connectors EXCEPT ![id].phase = ConnectorStatusPhaseAssigned,
                                          ![id].status_namespace_id = ns]
                 /\ \E d \in deployments' :
                       /\ deployments' \ deployments = {d}
                       /\ deployments \subseteq deployments'
                       /\ d.connector_id = id
                       /\ d.namespace_id = ns
                       /\ d.cluster_id = (IF ns = "ns-1" THEN "cl-1" ELSE "cl-2")
                       /\ d.connector_shard_metadata_id
                             = catalogStore[connectors[id].entry].id
                       /\ d.connector_version = connectors[id].version]_vars

\* a new connector request assigned by the first tick, after the catalog
\* reconciliation stored revision 1 of its entry
C16_Witness ==
    \E r \in replicas : \E d \in deployments :
        /\ ticks = 1
        /\ pc[r] = "returned"
        /\ errs[r] = <<>>
        /\ created = 1
        /\ connectors[1].phase = ConnectorStatusPhaseAssigned
        /\ connectors[1].version = 1
        /\ d = [id |-> 1, connector_id |-> 1, cluster_id |-> "cl-1", namespace_id |-> "ns-1",
                connector_version |-> 1, connector_shard_metadata_id |-> <<1, 1>>]

\* C17: when FindAvailableNamespace returns no namespace and no error, the
\* PR-assigning row returns success (its transaction is not rolled back and
\* adds no error unless the commit itself fails), writes neither a connector
\* status nor a deployment, and the connector still matches the "assigning"
\* query for the next tick.
C17_NoNamespaceNoWrite ==
    [][\A r \in replicas :
          LET id == lastTx'[r].id
          IN  (RowStep(r, "assigning") /\ lastTx'[r].namespace = Nil)
              => /\ lastTx'[r].outcome \in {"committed", "commit_failed"}
                 /\ lastTx'[r].outcome = "committed"
                       => (lastTx'[r].rerr = NoErr /\ errs'[r] = errs[r])
                 /\ connectors' = connectors
                 /\ deployments' = deployments
                 /\ nextDeploymentId' = nextDeploymentId
                 /\ RowIsCurrent(r, id) => AssigningQuery(connectors'[id])]_vars

\* in the second tick a connector request was again given no namespace and
\* is still waiting in phase assigning
C17_Witness ==
    \E r \in replicas :
        /\ ticks = 2
        /\ lastTx[r].phase = "assigning"
        /\ lastTx[r].namespace = Nil
        /\ lastTx[r].outcome = "committed"
        /\ lastTx[r].id \in DOMAIN connectors
        /\ connectors[lastTx[r].id].phase = ConnectorStatusPhaseAssigning
        /\ \A d \in deployments : d.connector_id # lastTx[r].id

\* C18: a PR-deleting row changes nothing while a deployment of the connector
\* is found; when there is none (404) it clears the connector's namespace_id
\* and sets its phase to deleted, and nothing else; a lookup that fails
\* otherwise has its error returned and leaves the connector, still in phase
\* deleting, and the deployments as they were.
C18_DeletingFollowsLookup ==
    [][\A r \in replicas :
          LET id == lastTx'[r].id
              hasDeployment == \E d \in deployments : d.connector_id = id
          IN  RowStep(r, "deleting")
              => /\ rows[r][id].desired_state = ConnectorDeleted
                 /\ rows[r][id].phase = ConnectorStatusPhaseDeleting
                 /\ deployments' = deployments
                 /\ (lastTx'[r].outcome = "committed" /\ hasDeployment)
                    => (connectors' = connectors /\ errs'[r] = errs[r])
                 /\ (lastTx'[r].outcome = "committed" /\ ~hasDeployment
                        /\ RowIsCurrent(r, id))
                    => connectors' =
                          [connectors EXCEPT ![id].namespace_id = Nil,
                                             ![id].phase = ConnectorStatusPhaseDeleted]
                 /\ lastTx'[r].rerr = ServiceErr("failed to get deployment")
                    => /\ connectors' = connectors
                       /\ errs'[r] = Append(errs[r], lastTx'[r].rerr)
                       /\ RowIsCurrent(r, id)
                             => connectors'[id].phase = ConnectorStatusPhaseDeleting]_vars

\* PR-deleting met the 404 and moved the connector to phase deleted
C18_Witness ==
    \E r \in replicas :
        /\ lastTx[r].phase = "deleting"
        /\ lastTx[r].outcome = "committed"
        /\ lastTx[r].id \in DOMAIN connectors
        /\ connectors[lastTx[r].id].phase = ConnectorStatusPhaseDeleted
        /\ connectors[lastTx[r].id].desired_state = ConnectorDeleted
        /\ connectors[lastTx[r].id].namespace_id = Nil

\* the tick of replica r has returned no error, and nothing outside the
\* reconciler has changed since it started
QuietTickEnd(r) == pc[r] = "returned" /\ errs[r] = <<>> /\ calm[r] # "dirty"

\* PR-deleting was handed connector id in the tick of replica r that has just
\* returned, and the connector's deployment is gone
SawNoDeployment(r, id) ==
    /\ QuietTickEnd(r)
    /\ "deleting" \in DOMAIN selected[r]
    /\ id \in selected[r]["deleting"]
    /\ \A d \in deployments : d.connector_id # id

\* C19 (as the specification states it): the tick in which PR-deleting sees
\* the 404 ends with the connector still present, in phase deleted with
\* namespace_id null; its hard delete is left to the following tick.
C19_HardDeleteOnFollowingTick ==
    \A r \in replicas : \A id \in 1..created :
        SawNoDeployment(r, id)
        => /\ id \in DOMAIN connectors
           /\ connectors[id].phase = ConnectorStatusPhaseDeleted
           /\ connectors[id].namespace_id = Nil

\* C19 (as the code has it): connector rows are removed only by a committed
\* PR-deleted row, and the tick in which PR-deleting sees the 404 ends, when it
\* returns no error, with the connector hard-deleted: PR-deleted runs after
\* PR-deleting in the same tick and selects the row just moved to phase deleted.
C19_HardDeleteInSameTick ==
    /\ [](\A r \in replicas : \A id \in 1..created :
            SawNoDeployment(r, id) => id \notin DOMAIN connectors)
    /\ [][\A id \in DOMAIN connectors \ DOMAIN connectors' :
            \E r \in replicas :
                /\ RowStep(r, "deleted")
                /\ lastTx'[r].id = id
                /\ lastTx'[r].outcome = "committed"]_vars

\* the first tick found the deployment of the connector being deleted gone
\* and has returned with the connector hard-deleted
C19_Witness ==
    \E r \in replicas :
        /\ SawNoDeployment(r, 1)
        /\ ticks = 1
        /\ 1 \notin DOMAIN connectors

\* C20: on the replica whose Reconcile never runs, the startup gate is
\* eventually released once CatalogEntriesReconciled returns true (the other
\* replica has reconciled the catalog), the probe goroutine being scheduled
\* fairly.
C20_FollowerGateReleased ==
    CatalogEntriesReconciled(catalogStore, config) ~> (startupReconcileWG["B"] = 0)

\* B's gate is open, set by B's probe alone, after A reconciled the catalog
\* and without B having entered Reconcile
C20_Witness ==
    /\ startupReconcileWG["B"] = 0
    /\ doneWriters["B"] = {"probe"}
    /\ "A" \in crCompleted
    /\ "B" \notin crCompleted
    /\ pc["B"] = "idle"

C22_NothingRunsAfterFlag ==
    [][\A r \in replicas :
          /\ (startupReconcileDone[r] /\ pc[r] = "idle") => pc'[r] # "cr_delete"
          /\ (startupReconcileDone[r] /\ probePc[r] = "call") => probePc'[r] = "call"
          /\ (r \in crCompleted /\ pc[r] = "cr_cleanup") => pc'[r] = "cr_cleanup"]_vars

\* C23 (as the specification states it): while the catalog reconciliation
\* has not succeeded on a replica that has ticked before (so that its earlier
\* ticks failed in it), the replica's next tick starts the catalog
\* reconciliation again at DeleteUnusedAndNotInCatalog.
C23_FailedCRRetried ==
    [][\A r \in replicas :
          (r \notin crCompleted /\ ticks >= 1 /\ pc[r] = "idle" /\ pc'[r] # "idle")
          => pc'[r] = "cr_delete"]_vars

\* C24: PR-assigning is atomic per row: when the row's transaction scope
\* returns an error (a failed namespace lookup, shard metadata lookup, status
\* save, deployment save, begin or commit), no row is written: the connector
\* stays in phase assigning and has no deployment.
C24_AssigningAtomic ==
    [][\A r \in replicas :
          (RowStep(r, "assigning")
           /\ (lastTx'[r].rerr # NoErr \/ lastTx'[r].outcome # "committed"))
          => /\ connectors' = connectors
             /\ deployments' = deployments
             /\ lastTx'[r].id \in DOMAIN connectors'
             /\ connectors'[lastTx'[r].id].phase = ConnectorStatusPhaseAssigning
             /\ \A d \in deployments' : d.connector_id # lastTx'[r].id]_vars

\* the deployment save failed after the status save had been staged, and the
\* row is as it was
C24_Witness ==
    \E r \in replicas :
        /\ lastTx[r].phase = "assigning"
        /\ lastTx[r].outcome = "rolled_back"
        /\ lastTx[r].rerr = ServiceErr("failed to create connector deployment")
        /\ connectors[1].phase = ConnectorStatusPhaseAssigning
        /\ deployments = {}

\* replica r commits, in this step, the transition of its current phase
\* for row id: the callback ran its writes and the transaction committed
AppliesTransition(r, id) ==
    /\ pc[r] = "rows"
    /\ id \in DOMAIN rows[r]
    /\ id \notin DOMAIN rows'[r]
    /\ lastTx'[r].outcome = "committed"
    /\ LET phase == ReconcilePhases[phaseIdx[r]]
       IN  CASE phase = "assigning" -> lastTx'[r].namespace \notin {"none", Nil}
             [] phase = "unassigned" -> TRUE
             [] phase = "deleting" -> \A d \in deployments : d.connector_id # id
             [] phase = "deleted" -> TRUE
             [] phase = "updated" -> deployments' # deployments

\* C25 (as the specification states it): when two replicas tick
\* concurrently, at most one of them applies the transition of a connector
\* row in a given state: a replica applies it only while the connector is
\* still as its scan read it, the other replica not having applied the
\* transition in between.
C25_OneReplicaPerTransition ==
    [][\A r \in replicas : \A id \in DOMAIN rows[r] :
          AppliesTransition(r, id) => RowIsCurrent(r, id)]_vars

\* InDBTransaction around the per-row function of replica r's current phase
\* for pending row id, in every way its collaborator calls can turn out: the
\* failing calls F, what the function does when invoked (res) and what the
\* transaction scope makes of it (t).
RowCallsFor(r, id) ==
    LET phase == ReconcilePhases[phaseIdx[r]]
    IN  {LET res == reconcileFunc(phase, DB, rows[r][id], F, namespace, found,
                                  nextDeploymentId)
         IN  [F |-> F, res |-> res, t |-> InDBTransaction(DB, F, res, lastVersion[r])] :
            F \in SUBSET CallsOf(phase),
            namespace \in FindAvailableNamespace(rows[r][id].namespace_id),
            found \in GetDeploymentByConnectorId(deployments, id)}

RowCalls ==
    UNION {UNION {RowCallsFor(r, id) : id \in DOMAIN rows[r]} :
              r \in {q \in replicas : pc[q] = "rows"}}

\* Resolve has run once: the transaction ended one of these four ways
Resolved == {"rolled_back", "rollback_failed", "committed", "commit_failed"}

C26_Scope(F, res, t) ==
    IF "Begin" \in F
    THEN /\ ~t.invoked
         /\ t.outcome \notin Resolved
         /\ t.connectors = connectors
         /\ t.deployments = deployments
    ELSE /\ t.invoked
         /\ t.outcome \in Resolved
         /\ res.err # NoErr <=> t.outcome \in {"rolled_back", "rollback_failed"}
         /\ res.err # NoErr => t.deployments = deployments /\ t.connectors = res.out.connectors
         /\ t.outcome = "committed" =>
                t.connectors = res.tx.connectors /\ t.deployments = res.tx.deployments

\* C26: InDBTransaction begins a transaction and invokes f; an error from f
\* marks the transaction for rollback and it is rolled back, otherwise it is
\* committed; Resolve runs once on both paths; when Begin fails f is not
\* invoked and Resolve is not run.
C26_TransactionScope == \A c \in RowCalls : C26_Scope(c.F, c.res, c.t)

\* a row function failed and Resolve, run for the rollback, failed too
C26_Witness ==
    \E r \in replicas :
        /\ lastTx[r].invoked
        /\ lastTx[r].outcome = "rollback_failed"
        /\ lastTx[r].phase = "deleted"

C27_Result(F, res, t) ==
    /\ t.rerr =
          IF "Begin" \in F THEN ServiceErr("failed to create tx")
          ELSE IF "Resolve" \in F THEN ServiceErr("failed to resolve tx")
          ELSE IF res.err = NoErr THEN NoErr
          ELSE IF res.err.svc THEN res.err
          ELSE ServiceErr(res.err.msg)
    /\ t.rerr = NoErr <=> ("Begin" \notin F /\ res.err = NoErr /\ "Resolve" \notin F)

\* C27: InDBTransaction returns the begin-failure error when Begin fails; the
\* resolve-failure error whenever Resolve fails, in place of f's error if
\* there was one; otherwise f's error, as it is when it is a service error
\* and wrapped in one when it is not; and nil exactly when Begin, f and
\* Resolve all succeed.
C27_TransactionResult == \A c \in RowCalls : C27_Result(c.F, c.res, c.t)

\* PR-update's plain error from the deployment save came back as a service
\* error with the same message
C27_Witness ==
    \E r \in replicas :
        /\ lastTx[r].phase = "updated"
        /\ lastTx[r].outcome = "rolled_back"
        /\ lastTx[r].rerr = ServiceErr("failed to update connector version in deployment")

\* PR-update for pending row id of replica r's "updated" scan with
\* AddPostCommitAction failing and the transaction begun, in every way the
\* other calls can turn out: what the lookup and save do by themselves
\* (alone), what the function does (res) and what the transaction scope
\* makes of it (t).
FailedRegistrationsFor(r, id) ==
    {LET res == reconcileConnectorUpdate(DB, rows[r][id], F, found)
         alone == reconcileConnectorUpdate(DB, rows[r][id], F \ {"AddPostCommitAction"},
                                           found)
     IN  [r |-> r, alone |-> alone, res |-> res,
          t |-> InDBTransaction(DB, F, res, lastVersion[r])] :
        F \in {G \in SUBSET CallsOf("updated") :
                  "AddPostCommitAction" \in G /\ "Begin" \notin G},
        found \in GetDeploymentByConnectorId(deployments, id)}

FailedRegistrations ==
    UNION {UNION {FailedRegistrationsFor(r, id) : id \in DOMAIN rows[r]} :
              r \in {q \in replicas :
                        pc[q] = "rows" /\ ReconcilePhases[phaseIdx[q]] = "updated"}}

C28_Combined(alone, res) ==
    res.err = IF alone.err = NoErr
              THEN PlainErr("failed to AddPostCommitAction")
              ELSE PlainErr("Multiple errors in reconciling connector")

C28_AsStated(r, alone, res, t) ==
    /\ alone.err # NoErr => t.outcome \in {"rolled_back", "rollback_failed"}
    /\ alone.err = NoErr =>
          /\ t.outcome \in {"committed", "commit_failed"}
          /\ t.outcome = "committed" => t.deployments = alone.tx.deployments
    /\ alone.err # NoErr => C28_Combined(alone, res)

C28_AsCoded(r, alone, res, t) ==
    /\ t.outcome \in {"rolled_back", "rollback_failed"}
    /\ t.deployments = deployments
    /\ t.connectors = connectors
    /\ t.lastVersion = lastVersion[r]
    /\ C28_Combined(alone, res)

\* C28 (as the specification states it): when registering the post-commit
\* action fails, the row transaction is rolled back only if the deployment
\* lookup or save failed too and committed otherwise, a saved deployment
\* version staying; when both fail the error combines both failures.
C28_RegistrationFailureCommits ==
    \A c \in FailedRegistrations : C28_AsStated(c.r, c.alone, c.res, c.t)

\* C28 (as the code has it): when registering the post-commit action fails,
\* PR-update returns an error, so the row transaction is rolled back in
\* every case: no deployment version is persisted and lastVersion stays; the
\* error is the registration's when the lookup and save succeeded and
\* combines both failures when they did not.
C28_RegistrationFailureRollsBack ==
    \A c \in FailedRegistrations : C28_AsCoded(c.r, c.alone, c.res, c.t)

\* the registration alone failed: the row was rolled back and the deployment
\* still lags the connector
C28_Witness ==
    \E r \in replicas :
        /\ lastTx[r].phase = "updated"
        /\ lastTx[r].outcome = "rolled_back"
        /\ lastTx[r].rerr = ServiceErr("failed to AddPostCommitAction")
        /\ Unpropagated(lastTx[r].id)

\* the database after PR-update has run for conn with no call failing
AfterUpdate(db, conn, lv) ==
    LET found == CHOOSE f \in GetDeploymentByConnectorId(db.deployments, conn.id) : TRUE
        t == InDBTransaction(db, {}, reconcileConnectorUpdate(db, conn, {}, found), lv)
    IN  [db EXCEPT !.connectors = t.connectors, !.deployments = t.deployments]

\* C29: PR-update is idempotent per row. For every row an "updated" scan has
\* selected, at lastVersion 0 (after a restart) or later: when the
\* deployment already has the connector's version no SaveDeployment is
\* issued (whether that call would fail makes no difference) and nothing is
\* written; and running PR-update twice on the row leaves the deployments as
\* running it once.
C29_UpdateIdempotent ==
    \A r \in replicas :
        (pc[r] = "rows" /\ ReconcilePhases[phaseIdx[r]] = "updated") =>
            \A id \in DOMAIN rows[r] :
                LET conn == rows[r][id]
                    once == AfterUpdate(DB, conn, lastVersion[r])
                IN  /\ AfterUpdate(once, conn, lastVersion[r]).deployments = once.deployments
                    /\ \A d \in deployments :
                          (d.connector_id = id /\ d.connector_version = conn.version) =>
                              /\ once.deployments = deployments
                              /\ \A F \in SUBSET (CallsOf("updated") \ {"SaveDeployment"}) :
                                    reconcileConnectorUpdate(DB, conn, F \cup {"SaveDeployment"}, {d})
                                        = reconcileConnectorUpdate(DB, conn, F, {d})

\* after a restart (lastVersion was 0 when the tick started) PR-update has
\* run on a connector whose deployment already had its version, and the
\* deployment is as it was
C29_Witness ==
    \E r \in replicas :
        /\ lastTx[r].phase = "updated"
        /\ lastTx[r].outcome = "committed"
        /\ tickStartVersion[r] = 0
        /\ lastVersion[r] = 2
        /\ deployments = SeedInSync.deployments
        /\ connectors = SeedInSync.connectors

\* C30 (as the specification states it): the catalog reconciliation of an
\* entry fails whenever its connector_revision is missing, is not a number
\* or has a fractional part, and succeeds, storing the value as the
\* revision, only when it is an integral number.
C30_RevisionMustBeIntegral ==
    \A e \in DOMAIN config :
        LET md == config[e]
            integral == md.found /\ md.isfloat64 /\ md.twice % 2 = 0
            res == ReconcileConnectorCatalogEntry(catalogStore, e, md, {})
        IN  /\ res.err = NoErr <=> integral
            /\ res.err = NoErr => 2 * res.store[e].revision = md.twice

\* C31 (as the specification states it): in a tick that runs the startup
\* catalog reconciliation, catalog entries are upserted only after
\* DeleteUnusedAndNotInCatalog has been invoked, and the startup-done flag is
\* not set before CleanupDeployments has been invoked: while the tick is in
\* the catalog reconciliation the flag rises only in the step that has run
\* CleanupDeployments.
C31_CatalogStepsInOrder ==
    [][\A r \in replicas :
          /\ (pc'[r] = "cr_entries") => (pc[r] \in {"cr_delete", "cr_entries"})
          /\ (catalogStore' # catalogStore) => (pc[r] \in {"cr_delete", "cr_entries"})
          /\ (/\ pc[r] \in {"cr_delete", "cr_entries", "cr_cleanup"}
              /\ ~startupReconcileDone[r]
              /\ startupReconcileDone'[r])
             => (pc[r] = "cr_cleanup" /\ pc'[r] = "ctx")]_vars

\* C32 (as the specification states it): the probe sleeps its interval after
\* every CatalogEntriesReconciled call that did not make it set the flag,
\* whether the call answered false or returned an error, before it evaluates
\* its loop condition and calls again; and it exits only once the flag is set.
C32_ProbeWaitsBetweenCalls ==
    [][\A r \in replicas :
          /\ (/\ probePc[r] = "call"
              /\ probePc'[r] # "call"
              /\ "probe" \notin doneWriters'[r])
             => probePc'[r] = "sleep"
          /\ (probePc[r] # "exited" /\ probePc'[r] = "exited")
             => startupReconcileDone[r]]_vars

\* C33 (as the specification states it): the startup-done flag is written
\* at most once per process: Reconcile and the probe goroutine never both
\* assign it.
C33_FlagWrittenOnce ==
    \A r \in replicas : Cardinality(doneWriters[r]) <= 1

\* the phase reconcilers whose query selects row c for some replica
SelectedBy(c) ==
    {i \in 1..Len(ReconcilePhases) :
        \E r \in replicas : Query(ReconcilePhases[i], c, lastVersion[r])}

\* a connector as PR-unassigned leaves it and nobody has pointed it at a
\* namespace since
InPool(c) == c.phase = ConnectorStatusPhaseAssigning /\ c.namespace_id = Nil

\* C34 (as the specification states it): a connector that PR-unassigned has
\* returned to the pool is selected by no phase reconciler until an external
\* actor sets desired_state ready and a non-null namespace_id.
C34_PooledNeverSelected ==
    \A c \in DOMAIN connectors : InPool(connectors[c]) => SelectedBy(connectors[c]) = {}

\* C34: a committed PR-unassigned row leaves the connector, while its
\* desired_state is still unassigned, with namespace_id null on the row and
\* in the status and with phase assigning; a connector in the pool is selected
\* by no phase reconciler while its desired_state is not deleted, and by
\* PR-deleted alone once an external actor has set desired_state deleted.
C34_UnassignedReturnsToPool ==
    /\ \A r \in replicas :
          LET id == lastTx[r].id
          IN  (/\ lastTx[r].phase = "unassigned"
               /\ lastTx[r].outcome = "committed"
               /\ id \in DOMAIN connectors
               /\ connectors[id].desired_state = ConnectorUnassigned)
              => /\ connectors[id].namespace_id = Nil
                 /\ connectors[id].status_namespace_id = Nil
                 /\ connectors[id].phase = ConnectorStatusPhaseAssigning
    /\ \A c \in DOMAIN connectors :
          InPool(connectors[c])
          => \A i \in SelectedBy(connectors[c]) :
                /\ ReconcilePhases[i] = "deleted"
                /\ connectors[c].desired_state = ConnectorDeleted

\* a whole tick after the one whose PR-unassigned returned connector 1 to the
\* pool has run its five scans and the connector is as PR-unassigned left it
C34_Witness ==
    \E r \in replicas :
        /\ ticks = 2
        /\ pc[r] = "returned"
        /\ errs[r] = <<>>
        /\ ran[r] = {ReconcilePhases[i] : i \in 1..Len(ReconcilePhases)}
        /\ 1 \in DOMAIN connectors
        /\ connectors[1] =
              Connector(1, ConnectorUnassigned, ConnectorStatusPhaseAssigning, Nil, Nil, 1)

\* C35 (as the specification states it): PR-unassigned and PR-deleting are
\* all-or-nothing per row: when the row's transaction does not commit (the
\* function returned an error, or begin or commit failed), the connector's
\* namespace_id and status are as they were before the row was processed.
C35_RowAllOrNothing ==
    [][\A r \in replicas :
          (/\ RowStep(r, "unassigned") \/ RowStep(r, "deleting")
           /\ lastTx'[r].outcome # "committed")
          => connectors' = connectors]_vars

\* the largest version among connectors S
LargestVersion(S) ==
    CHOOSE v \in {connectors[c].version : c \in S} :
        \A c \in S : connectors[c].version <= v

\* C36 (as the specification states it): when a tick returns in which the
\* PR-update scan selected rows and every one of their transactions
\* committed, nothing outside the reconciler having changed meanwhile, the
\* high-water mark is the largest version among the selected connectors, in
\* whatever order the rows were handed to the callback.
C36_MarkIsLargestSelected ==
    \A r \in replicas :
        (/\ pc[r] = "returned"
         /\ calm[r] # "dirty"
         /\ "updated" \in DOMAIN selected[r]
         /\ selected[r]["updated"] # {}
         /\ selected[r]["updated"] \subseteq DOMAIN connectors
         /\ \A id \in selected[r]["updated"] :
               id \notin DOMAIN failedUpdate[r] \/ failedUpdate[r][id] # "this_tick")
        => lastVersion[r] = LargestVersion(selected[r]["updated"])

\* C37: every connector row, as the database holds it or as a scan has read
\* it, satisfies the query of at most one of the five phase reconcilers.
C37_AtMostOneReconcilerSelects ==
    /\ \A c \in DOMAIN connectors : Cardinality(SelectedBy(connectors[c])) <= 1
    /\ \A r \in replicas : \A c \in DOMAIN rows[r] :
          Cardinality(SelectedBy(rows[r][c])) <= 1

\* a scan has selected a connector that exactly one query accepts: that of
\* the phase being reconciled
C37_Witness ==
    \E r \in replicas : \E c \in DOMAIN rows[r] :
        /\ pc[r] = "rows"
        /\ RowIsCurrent(r, c)
        /\ SelectedBy(connectors[c]) = {phaseIdx[r]}

\* the phase changes the per-row functions make: reconciler, phase before,
\* phase after
PhaseEdges ==
    {<<"assigning", ConnectorStatusPhaseAssigning, ConnectorStatusPhaseAssigned>>,
     <<"unassigned", ConnectorStatusPhaseDeleted, ConnectorStatusPhaseAssigning>>,
     <<"deleting", ConnectorStatusPhaseDeleting, ConnectorStatusPhaseDeleted>>}

\* C38: a callback of a phase reconciler changes a connector's phase only
\* along assigning -> assigned (PR-assigning), deleted -> assigning
\* (PR-unassigned) or deleting -> deleted (PR-deleting); only PR-deleted
\* removes a row; no callback adds a row or changes a connector's
\* desired_state or version.
C38_PhaseEdgesOnly ==
    [][\A r \in replicas : \A i \in 1..Len(ReconcilePhases) :
          RowStep(r, ReconcilePhases[i])
          => /\ DOMAIN connectors' \subseteq DOMAIN connectors
             /\ \A c \in DOMAIN connectors :
                   IF c \in DOMAIN connectors'
                   THEN /\ connectors'[c].desired_state = connectors[c].desired_state
                        /\ connectors'[c].version = connectors[c].version
                        /\ \/ connectors'[c].phase = connectors[c].phase
                           \/ <<ReconcilePhases[i], connectors[c].phase,
                                connectors'[c].phase>> \in PhaseEdges
                   ELSE ReconcilePhases[i] = "deleted"]_vars

\* PR-deleting has moved connector 1, whose deployment was torn down, from
\* deleting to deleted, its desired_state and version being what they were
C38_Witness ==
    \E r \in replicas :
        /\ lastTx[r].phase = "deleting"
        /\ lastTx[r].id = 1
        /\ lastTx[r].outcome = "committed"
        /\ 1 \in DOMAIN connectors
        /\ connectors[1].phase = ConnectorStatusPhaseDeleted
        /\ connectors[1].desired_state = ConnectorDeleted
        /\ connectors[1].version = SeedDeleting.connectors[1].version

\* C39 (as the specification states it): no deployment exists for a
\* connector that is no longer in the store; PR-deleted never removes a
\* connector that has a deployment; and PR-assigning never creates a
\* deployment for a connector that has been removed or whose desired_state
\* is deleted, whatever external actors and other replicas did between the
\* scan and the row's transaction.
C39_NoDeploymentForDeleted ==
    [][/\ \A d \in deployments' : d.connector_id \in DOMAIN connectors'
       /\ \A r \in replicas :
             /\ RowStep(r, "deleted")
                => \A c \in DOMAIN connectors \ DOMAIN connectors' :
                      \A d \in deployments : d.connector_id # c
             /\ RowStep(r, "assigning")
                => \A d \in deployments' \ deployments :
                      /\ d.connector_id \in DOMAIN connectors
                      /\ connectors[d.connector_id].desired_state # ConnectorDeleted]_vars

\* C40: the connector_version of every deployment is at most the current
\* version of its connector.
C40_DeploymentVersionNotAhead ==
    \A d \in deployments :
        d.connector_id \in DOMAIN connectors
        => d.connector_version <= connectors[d.connector_id].version

\* PR-update has copied the version of connector 1, read by its scan, into
\* the deployment that lagged behind
C40_Witness ==
    \E r \in replicas : \E d \in deployments :
        /\ lastTx[r].phase = "updated"
        /\ lastTx[r].id = 1
        /\ lastTx[r].outcome = "committed"
        /\ d.connector_id = 1
        /\ d \notin SeedLagging.deployments
        /\ connectors = SeedLagging.connectors
        /\ d.connector_version = connectors[1].version

====
